---- MODULE Spec2Model ----
(***************************************************************************)
(* Netflix/go-env: the `env` struct-tag converter between an EnvSet (a     *)
(* map from string to string) and a Go struct.                             *)
(*                                                                         *)
(* A Go string is a sequence of one-character strings, so that parsing and *)
(* formatting are computed character by character.  A Go value is          *)
(*   string -> a sequence of characters     int  -> an integer             *)
(*   bool   -> a BOOLEAN                    *T   -> <<>> (nil) or <<v>>     *)
(*   struct -> the sequence of its field values, in declaration order.     *)
(* Unmarshal and Marshal are run one loop iteration at a time, with the    *)
(* recursion into nested structs kept on an explicit call stack.           *)
(***************************************************************************)
EXTENDS Integers, Sequences, FiniteSets, TLC

VARIABLES
    typ,    \* name of the struct type of the record the caller holds
    rec,    \* the caller's record (a struct value of type typ)
    es,     \* the caller's EnvSet
    v,      \* shape of the interface value passed to the running/last call
    op,     \* "none" or the name of the running/last call
    pc,     \* "idle", "running" or "done"
    stack,  \* call frames of the running call, innermost last
    out,    \* EnvSet returned by the last Marshal or EnvironToEnvSet, or Nil
    err,    \* error returned by the last call ("" is nil)
    errValue, \* the key an ErrMissingRequiredValue names, else <<>>
    es0,    \* the EnvSet as it was when the last call was made
    rec0,   \* the record as it was when the last call was made
    src,    \* the record encoded by the last Marshal
    trip,   \* TRUE while a call runs on the output of the inverse operation
    calls,  \* number of calls made so far
    environ, \* the items given to the running/last EnvironToEnvSet
    cs,     \* the ChangeSet given to the running/last Apply
    repeat  \* TRUE while a call runs that repeats the call before it

vars ==
    <<typ, rec, es, v, op, pc, stack, out, err, errValue, es0, rec0, src, trip,
      calls, environ, cs, repeat>>

----------------------------------------------------------------------------
(* Bounds of the model *)

\* largest number of entries of the EnvSet the caller starts with
MaxEnv == 3

\* largest number of Unmarshal/Marshal calls in one behaviour
MaxCalls == 2

----------------------------------------------------------------------------
(* Strings *)

\* the keys of the env tags of the struct types below, shortened: each stands
\* for the key of the same name in the declaration its struct type models
HOME == <<"H", "O", "M", "E">>
WORKSPACE == <<"W", "S">>
EXTRA == <<"E", "X", "T", "R", "A">>
INT == <<"I", "N", "T">>
BOOL == <<"B", "O", "O", "L">>
POINTER_STRING == <<"P", "S">>
POINTER_INT == <<"P", "I">>
POINTER_POINTER_STRING == <<"P", "P", "S">>
JENKINS_POINTER_MISSING == <<"J", "P", "M">>
TIMESTAMP == <<"T", "S">>
HIDDEN == <<"H", "I", "D">>
NPM_LOWER == <<"n", "p", "m">>
NPM_UPPER == <<"N", "P", "M">>
MISSING_KVSTRING == <<"K", "V">>
MISSING_INT == <<"M", "I">>
MISSING_1 == <<"M", "1">>
MISSING_2 == <<"M", "2">>
PRESENT == <<"P", "R">>
REQUIRED_VAL == <<"R", "V">>
REQUIRED_VAL_MORE == <<"R", "M">>
REQUIRED_MISSING == <<"R", "Q">>
NOT_REQUIRED == <<"N", "R">>
KV == <<"K", "V", "S">>
BASE64_ENCODED_STRING == <<"B", "6", "4">>
JSON_DATA == <<"J", "D">>
POINTER_JSON_DATA == <<"P", "J", "D">>
SEPARATOR == <<"S", "E", "P">>
BUILD_ID == <<"B", "I">>
BUILD_NUMBER == <<"B", "N">>
CI == <<"C", "I">>

Digits == <<"0", "1", "2", "3", "4", "5", "6", "7", "8", "9">>

\* the value of a decimal digit character, or -1
DigitValue(ch) ==
    IF \E d \in 1..Len(Digits) : Digits[d] = ch
    THEN (CHOOSE d \in 1..Len(Digits) : Digits[d] = ch) - 1
    ELSE -1

ErrInvalidValue == "ErrInvalidValue"
ErrUnsupportedType == "ErrUnsupportedType"
ErrUnexportedField == "ErrUnexportedField"
ErrSyntax == "strconv.ErrSyntax"
Panic == "panic"

Nil == "nil"

----------------------------------------------------------------------------
(* strconv and fmt *)

RECURSIVE ParseDigits(_, _)
\* the loop of strconv.Atoi: n = n*10 + digit; -1 on a non-digit
ParseDigits(s, n) ==
    IF s = <<>> THEN n
    ELSE IF DigitValue(Head(s)) < 0 THEN -1
    ELSE ParseDigits(Tail(s), n * 10 + DigitValue(Head(s)))

\* a variant of Atoi that reads the digits and drops the sign
Atoi_Magnitude(s) ==
    IF s = <<>> THEN [err |-> ErrSyntax, val |-> 0]
    ELSE LET signed == Head(s) \in {"-", "+"}
             body == IF signed THEN Tail(s) ELSE s
             n == ParseDigits(body, 0)
         IN  IF body = <<>> \/ n < 0 THEN [err |-> ErrSyntax, val |-> 0]
             ELSE [err |-> "", val |-> n]

\* strconv.Atoi: optional sign, then one or more decimal digits.  Every string
\* of the model is shorter than 19 characters, which is Atoi's path without a
\* range check.
Atoi(s) ==
    IF s = <<>> THEN [err |-> ErrSyntax, val |-> 0]
    ELSE LET signed == Head(s) \in {"-", "+"}
             body == IF signed THEN Tail(s) ELSE s
             n == ParseDigits(body, 0)
         IN  IF body = <<>> \/ n < 0 THEN [err |-> ErrSyntax, val |-> 0]
             ELSE IF Head(s) = "-" THEN [err |-> "", val |-> 0 - n]
             ELSE [err |-> "", val |-> n]

TrueTexts ==
    { <<"1">>, <<"t">>, <<"T">>, <<"T", "R", "U", "E">>,
      <<"t", "r", "u", "e">>, <<"T", "r", "u", "e">> }

FalseTexts ==
    { <<"0">>, <<"f">>, <<"F">>, <<"F", "A", "L", "S", "E">>,
      <<"f", "a", "l", "s", "e">>, <<"F", "a", "l", "s", "e">> }

\* a parse that knows the tokens true and false only
ParseBool_Strict(s) ==
    IF s = <<"t", "r", "u", "e">> THEN [err |-> "", val |-> TRUE]
    ELSE IF s = <<"f", "a", "l", "s", "e">> THEN [err |-> "", val |-> FALSE]
    ELSE [err |-> ErrSyntax, val |-> FALSE]

\* strconv.ParseBool
ParseBool(s) ==
    IF s \in TrueTexts THEN [err |-> "", val |-> TRUE]
    ELSE IF s \in FalseTexts THEN [err |-> "", val |-> FALSE]
    ELSE [err |-> ErrSyntax, val |-> FALSE]

RECURSIVE FormatNat(_)
FormatNat(n) ==
    IF n < 10 THEN <<Digits[n + 1]>>
    ELSE FormatNat(n \div 10) \o <<Digits[(n % 10) + 1]>>

\* a variant of FormatInt that prints the magnitude and drops the sign
FormatInt_Unsigned(n) == IF n < 0 THEN FormatNat(0 - n) ELSE FormatNat(n)

\* fmt.Sprintf("%v", n) of an int
FormatInt(n) == IF n < 0 THEN <<"-">> \o FormatNat(0 - n) ELSE FormatNat(n)

\* fmt.Sprintf("%v", b) of a bool
FormatBool(b) ==
    IF b THEN <<"t", "r", "u", "e">> ELSE <<"f", "a", "l", "s", "e">>

----------------------------------------------------------------------------
(* Go types and values *)

StringT == [kind |-> "string"]
IntT == [kind |-> "int"]
BoolT == [kind |-> "bool"]
Uint64T == [kind |-> "uint64"]
Int64T == [kind |-> "int64"]
PtrT(t) == [kind |-> "ptr", elem |-> t]
SliceT(t) == [kind |-> "slice", elem |-> t]
StructT(name, fields) == [kind |-> "struct", name |-> name, fields |-> fields]

\* a type with the methods UnmarshalEnvironmentValue and
\* MarshalEnvironmentValue: t with the name of its coder
CoderT(t, coder) == [f \in DOMAIN t \cup {"coder"} |->
                        IF f = "coder" THEN coder ELSE t[f]]

\* the coder of a type, "" when it has none
Coder(t) == IF "coder" \in DOMAIN t THEN t.coder ELSE ""

\* a struct field: exported is false for a field whose name starts in lower
\* case; tag is the value of the field's `env` tag, <<>> when it has none
Field(name, tag, exported, type) ==
    [name |-> name, tag |-> tag, exported |-> exported, type |-> type]

\* time.Time: three unexported fields without tags
TimeT ==
    StructT("time.Time",
        << Field("wall", <<>>, FALSE, Uint64T),
           Field("ext", <<>>, FALSE, Int64T),
           Field("loc", <<>>, FALSE, PtrT(StructT("time.Location", <<>>))) >>)

RECURSIVE Zero(_)
\* the zero value of a type
Zero(t) ==
    CASE t.kind = "string" -> <<>>
      [] t.kind = "bool" -> FALSE
      [] t.kind = "ptr" -> <<>>
      [] t.kind = "slice" -> <<>>
      [] t.kind = "struct" -> [i \in 1..Len(t.fields) |-> Zero(t.fields[i].type)]
      [] OTHER -> 0

RECURSIVE GetAt(_, _)
\* the value of the field at path p (a sequence of field indices) of struct x
GetAt(x, p) == IF p = <<>> THEN x ELSE GetAt(x[Head(p)], Tail(p))

RECURSIVE SetAt(_, _, _)
\* struct x with the field at path p replaced by y
SetAt(x, p, y) ==
    IF p = <<>> THEN y
    ELSE [x EXCEPT ![Head(p)] = SetAt(x[Head(p)], Tail(p), y)]

----------------------------------------------------------------------------
(* EnvSet: a map from string to string *)

EmptySet == [k \in {} |-> <<>>]

\* m[k] = x
Put(m, k, x) == [a \in DOMAIN m \cup {k} |-> IF a = k THEN x ELSE m[a]]

\* delete(m, k)
Delete(m, k) == [a \in DOMAIN m \ {k} |-> m[a]]

\* a variant of Merge in which an entry of m is kept when n has the key too
Merge_KeepsEarlier(m, n) ==
    [a \in DOMAIN m \cup DOMAIN n |-> IF a \in DOMAIN m THEN m[a] ELSE n[a]]

\* for k, v := range nes { es[k] = v }
Merge(m, n) ==
    [a \in DOMAIN m \cup DOMAIN n |-> IF a \in DOMAIN n THEN n[a] ELSE m[a]]

----------------------------------------------------------------------------
(* The struct types the caller decodes into and encodes from *)

\* ValidStruct: Home, Jenkins{Workspace}, Extra (no tag), Int, Bool
ValidStruct ==
    StructT("ValidStruct",
        << Field("Home", HOME, TRUE, StringT),
           Field("Jenkins", <<>>, TRUE,
               StructT("", << Field("Workspace", WORKSPACE, TRUE, StringT) >>)),
           Field("Extra", <<>>, TRUE, StringT),
           Field("Int", INT, TRUE, IntT),
           Field("Bool", BOOL, TRUE, BoolT) >>)

\* the pointer fields of the later ValidStruct
PointerStruct ==
    StructT("PointerStruct",
        << Field("Jenkins", <<>>, TRUE,
               StructT("", << Field("PointerMissing", JENKINS_POINTER_MISSING,
                                    TRUE, PtrT(StringT)) >>)),
           Field("PointerString", POINTER_STRING, TRUE, PtrT(StringT)),
           Field("PointerInt", POINTER_INT, TRUE, PtrT(IntT)),
           Field("PointerPointerString", POINTER_POINTER_STRING, TRUE,
               PtrT(PtrT(StringT))) >>)

UnsupportedStruct ==
    StructT("UnsupportedStruct",
        << Field("Timestamp", TIMESTAMP, TRUE, TimeT) >>)

UnexportedStruct ==
    StructT("UnexportedStruct", << Field("home", HOME, FALSE, StringT) >>)

\* a tagged nested struct in an unexported field, before an exported field
HiddenStruct ==
    StructT("HiddenStruct",
        << Field("hidden", HIDDEN, FALSE,
               StructT("", << Field("Workspace", WORKSPACE, TRUE, StringT) >>)),
           Field("Home", HOME, TRUE, StringT) >>)

\* a nested and a top-level field tagged with the same key
SharedStruct ==
    StructT("SharedStruct",
        << Field("Jenkins", <<>>, TRUE,
               StructT("", << Field("Home", HOME, TRUE, StringT) >>)),
           Field("Home", HOME, TRUE, StringT) >>)

\* the same key on a top-level field and, after it, on a nested one
SharedLaterStruct ==
    StructT("SharedLaterStruct",
        << Field("Home", HOME, TRUE, StringT),
           Field("Jenkins", <<>>, TRUE,
               StructT("", << Field("Home", HOME, TRUE, StringT) >>)) >>)

\* the same key in two nested structs
TwoNestedStruct ==
    StructT("TwoNestedStruct",
        << Field("Jenkins", <<>>, TRUE,
               StructT("", << Field("Home", HOME, TRUE, StringT) >>)),
           Field("Node", <<>>, TRUE,
               StructT("", << Field("Home", HOME, TRUE, StringT) >>)) >>)

\* a field of unsupported type before a field of supported type
UnsupportedFirstStruct ==
    StructT("UnsupportedFirstStruct",
        << Field("Timestamp", TIMESTAMP, TRUE, TimeT),
           Field("Home", HOME, TRUE, StringT) >>)

\* the field MultipleTags of the latest ValidStruct:
\* env:"npm_config_cache,NPM_CONFIG_CACHE", the keys shortened to npm and NPM
MultipleTagsStruct ==
    StructT("MultipleTagsStruct",
        << Field("MultipleTags", <<"n", "p", "m", ",", "N", "P", "M">>, TRUE, StringT) >>)

\* the nested struct Node of the README's Environment, the keys shortened
Environment ==
    StructT("Environment",
        << Field("Node", <<>>, TRUE,
               StructT("", << Field("ConfigCache", <<"n", "p", "m", ",", "N", "P", "M">>, TRUE, PtrT(StringT)) >>))
        >>)

\* the Environment of the README of this version, without its untagged map
\* Extras
JenkinsEnvironment ==
    StructT("JenkinsEnvironment",
        << Field("Home", HOME, TRUE, StringT),
           Field("Jenkins", <<>>, TRUE,
               StructT("", << Field("BuildId", BUILD_ID, TRUE, PtrT(StringT)),
                              Field("BuildNumber", BUILD_NUMBER, TRUE, IntT),
                              Field("Ci", CI, TRUE, BoolT) >>)) >>)

\* four fields of DefaultValueStruct, the keys shortened:
\* env:"MISSING_KVSTRING,default=key=value", env:"MISSING_INT,default=7",
\* env:"MISSING_1,MISSING_2,default=present" and
\* env:"MISSING_1,PRESENT,default=present"
DefaultValueStruct ==
    StructT("DefaultValueStruct",
        << Field("DefaultKeyValueString",
               <<"K", "V", ",", "d", "e", "f", "a", "u", "l", "t", "=",
                 "k", "=", "v">>,
               TRUE, StringT),
           Field("DefaultInt",
               <<"M", "I", ",", "d", "e", "f", "a", "u", "l", "t", "=",
                 "7">>,
               TRUE, IntT),
           Field("DefaultWithOptionsMissing",
               <<"M", "1", ",", "M", "2", ",", "d", "e", "f", "a", "u",
                 "l", "t", "=", "p">>,
               TRUE, StringT),
           Field("DefaultWithOptionsPresent",
               <<"M", "1", ",", "P", "R", ",", "d", "e", "f", "a", "u",
                 "l", "t", "=", "p">>,
               TRUE, StringT) >>)

\* four fields of RequiredValueStruct, the keys shortened:
\* env:"REQUIRED_VAL,required=true", env:"REQUIRED_VAL_MORE,required=true",
\* env:"REQUIRED_MISSING,default=myValue,required=true" and
\* env:"NOT_REQUIRED,required=false"
RequiredValueStruct ==
    StructT("RequiredValueStruct",
        << Field("Required",
               <<"R", "V", ",", "r", "e", "q", "u", "i", "r", "e", "d", "=",
                 "t", "r", "u", "e">>,
               TRUE, StringT),
           Field("RequiredMore",
               <<"R", "M", ",", "r", "e", "q", "u", "i", "r", "e", "d", "=",
                 "t", "r", "u", "e">>,
               TRUE, StringT),
           Field("RequiredWithDefault",
               <<"R", "Q", ",", "d", "e", "f", "a", "u", "l", "t", "=", "m",
                 ",", "r", "e", "q", "u", "i", "r", "e", "d", "=",
                 "t", "r", "u", "e">>,
               TRUE, StringT),
           Field("NotRequired",
               <<"N", "R", ",", "r", "e", "q", "u", "i", "r", "e", "d", "=",
                 "f", "a", "l", "s", "e">>,
               TRUE, StringT) >>)

\* four fields of IterValuesStruct: env:"INT", env:"BOOL", env:"KV" and
\* env:"SEPARATOR,separator=&", the last key shortened
IterValuesStruct ==
    StructT("IterValuesStruct",
        << Field("IntSlice", INT, TRUE, SliceT(IntT)),
           Field("BoolSlice", BOOL, TRUE, SliceT(BoolT)),
           Field("KVStringSlice", KV, TRUE, SliceT(StringT)),
           Field("WithSeparator",
               <<"S", "E", "P", ",", "s", "e", "p", "a", "r", "a", "t", "o",
                 "r", "=", "&">>,
               TRUE, SliceT(IntT)) >>)

\* type Base64EncodedString string, with its two methods
Base64EncodedString == CoderT(StringT, "base64")

\* type JSONData struct { SomeField int `json:"someField"` }, with its two
\* methods
JSONData ==
    CoderT(StructT("JSONData", << Field("SomeField", <<>>, TRUE, IntT) >>),
           "json")

\* the custom-coder fields of the latest ValidStruct, the keys shortened
CustomStruct ==
    StructT("CustomStruct",
        << Field("Base64EncodedString", BASE64_ENCODED_STRING, TRUE,
               Base64EncodedString),
           Field("JSONData", JSON_DATA, TRUE, JSONData),
           Field("PointerJSONData", POINTER_JSON_DATA, TRUE, PtrT(JSONData)) >>)

TypeNames ==
    { "ValidStruct", "PointerStruct", "UnsupportedStruct", "UnexportedStruct",
      "HiddenStruct", "SharedStruct" }

TypeOf(n) ==
    CASE n = "ValidStruct" -> ValidStruct
      [] n = "PointerStruct" -> PointerStruct
      [] n = "UnsupportedStruct" -> UnsupportedStruct
      [] n = "UnexportedStruct" -> UnexportedStruct
      [] n = "HiddenStruct" -> HiddenStruct
      [] n = "SharedStruct" -> SharedStruct
      [] n = "MultipleTagsStruct" -> MultipleTagsStruct
      [] n = "DefaultValueStruct" -> DefaultValueStruct
      [] n = "Environment" -> Environment
      [] n = "RequiredValueStruct" -> RequiredValueStruct
      [] n = "IterValuesStruct" -> IterValuesStruct
      [] n = "CustomStruct" -> CustomStruct
      [] n = "JenkinsEnvironment" -> JenkinsEnvironment
      [] n = "SharedLaterStruct" -> SharedLaterStruct
      [] n = "TwoNestedStruct" -> TwoNestedStruct
      [] n = "UnsupportedFirstStruct" -> UnsupportedFirstStruct

RECURSIVE TagsOf(_)
\* every env tag written in a struct type, nested structs included
TagsOf(t) ==
    IF t.kind # "struct" THEN {}
    ELSE UNION { (IF t.fields[i].tag = <<>> THEN {} ELSE {t.fields[i].tag})
                 \cup TagsOf(t.fields[i].type) : i \in 1..Len(t.fields) }

\* the values the entries of the caller's EnvSet are drawn from
EnvValues == { <<>>, <<"1">>, <<"-", "1", "2">>, <<"t", "r", "u", "e">> }

\* the EnvSets of at most MaxEnv entries over a set of keys
EnvSetsOver(keys) ==
    UNION { [d -> EnvValues] :
              d \in { d \in SUBSET keys : Cardinality(d) <= MaxEnv } }

\* the EnvSets the caller may start with: over the tags of the struct type
\* and one key (EXTRA) that no field is tagged with
EnvSets(t) == EnvSetsOver(TagsOf(t) \cup {EXTRA})

Samples == 1..4

RECURSIVE Sample(_, _)
\* the s-th sample value of a type: 1 is the zero value, 2 and 3 are
\* populated, 4 alternates the three from field to field
Sample(t, s) ==
    CASE t.kind = "string" ->
            IF s = 1 THEN <<>> ELSE IF s = 2 THEN <<"a">> ELSE <<"b", "=", "c">>
      [] t.kind = "int" -> IF s = 1 THEN 0 ELSE IF s = 2 THEN 7 ELSE 0 - 120
      [] t.kind = "bool" -> (s # 1)
      [] t.kind = "ptr" ->
            IF s = 1 THEN <<>>
            ELSE IF s = 2 THEN << Sample(t.elem, 2) >>
            ELSE << Sample(t.elem, 1) >>
      [] t.kind = "slice" ->
            IF s = 1 THEN <<>> ELSE << Sample(t.elem, s) >>
      [] t.kind = "struct" ->
            IF t.name = "time.Time" THEN Zero(t)
            ELSE [i \in 1..Len(t.fields) |->
                    Sample(t.fields[i].type,
                           IF s \in 1..3 THEN s ELSE 1 + ((i + 2) % 3))]
      [] OTHER -> 0

----------------------------------------------------------------------------
(* reflect *)

\* the shapes of the interface value v handed to Unmarshal and Marshal
Target(kind, isNil, elem) == [kind |-> kind, isNil |-> isNil, elem |-> elem]

NilInterface == Target("invalid", TRUE, "invalid")
StructByValue == Target("struct", FALSE, "struct")
NilPointer == Target("ptr", TRUE, "struct")
PointerToPointer == Target("ptr", FALSE, "ptr")
PointerToStruct == Target("ptr", FALSE, "struct")

Targets ==
    { NilInterface, StructByValue, NilPointer, PointerToPointer,
      PointerToStruct }

\* a variant of InvalidValue without the check that rv.Elem() is a struct
InvalidValue_AnyPointer(target) == target.kind # "ptr" \/ target.isNil

\* rv.Kind() != reflect.Ptr || rv.IsNil(), then rv.Elem().Kind() != reflect.Struct
InvalidValue(target) ==
    IF target.kind # "ptr" \/ target.isNil THEN TRUE
    ELSE target.elem # "struct"

\* a variant of CanInterface that holds of unexported fields too
CanInterface_Always(f) == TRUE

\* valueField.Addr().CanInterface(): false for a field reached through an
\* unexported field; the walk never enters an unexported struct, so this is
\* whether the field itself is exported
CanInterface(f) == f.exported

\* valueField.CanSet(): the field is addressable (it is reached through a
\* pointer) and was not reached through an unexported field
CanSet(f) == f.exported

----------------------------------------------------------------------------
(* Unmarshal *)

RECURSIVE set(_, _)
\* set(t, f, value): the value stored into f, or the error
set(t, value) ==
    CASE t.kind = "ptr" ->
            LET r == set(t.elem, value)
            IN  IF r.err # "" THEN r ELSE [err |-> "", val |-> << r.val >>]
      [] t.kind = "string" -> [err |-> "", val |-> value]
      [] t.kind = "bool" ->
            ParseBool(value)
      [] t.kind = "int" ->
            Atoi(value)
      [] OTHER -> [err |-> ErrUnsupportedType, val |-> <<>>]

\* result of the part of a loop iteration that follows the struct case:
\* either the loop goes on with (m, r) or Unmarshal returns e
Continue(m, r) ==
    [return |-> FALSE, err |-> "", value |-> <<>>, es |-> m, rec |-> r]
\* a variant of Return that undoes what the call has done so far
Return_Rollback(e, m, r) ==
    [return |-> TRUE, err |-> e, value |-> <<>>, es |-> es0, rec |-> rec0]

\* return err
Return(e, m, r) ==
    [return |-> TRUE, err |-> e, value |-> <<>>, es |-> m, rec |-> r]

\* a variant of unmarshalTag without the delete: the matched key stays in m
unmarshalTag_KeepsKey(f, p, m, r) ==
    IF f.tag = <<>> THEN Continue(m, r)
    ELSE IF ~CanSet(f) THEN Return(ErrUnexportedField, m, r)
    ELSE IF f.tag \notin DOMAIN m THEN Continue(m, r)
    ELSE LET s == set(f.type, m[f.tag])
         IN  IF s.err # "" THEN Return(s.err, m, r)
             ELSE Continue(m, SetAt(r, p, s.val))

\* a variant of unmarshalTag that takes an empty value for a missing one
unmarshalTag_SkipsEmpty(f, p, m, r) ==
    IF f.tag = <<>> THEN Continue(m, r)
    ELSE IF ~CanSet(f) THEN Return(ErrUnexportedField, m, r)
    ELSE IF f.tag \notin DOMAIN m THEN Continue(m, r)
    ELSE IF m[f.tag] = <<>> THEN Continue(Delete(m, f.tag), r)
    ELSE LET s == set(f.type, m[f.tag])
         IN  IF s.err # "" THEN Return(s.err, m, r)
             ELSE Continue(Delete(m, f.tag), SetAt(r, p, s.val))

\* a variant of unmarshalTag that passes over a field of unsupported type
unmarshalTag_SkipsUnsupported(f, p, m, r) ==
    IF f.tag = <<>> THEN Continue(m, r)
    ELSE IF ~CanSet(f) THEN Return(ErrUnexportedField, m, r)
    ELSE IF f.tag \notin DOMAIN m THEN Continue(m, r)
    ELSE LET s == set(f.type, m[f.tag])
         IN  IF s.err = ErrUnsupportedType THEN Continue(m, r)
             ELSE IF s.err # "" THEN Return(s.err, m, r)
             ELSE Continue(Delete(m, f.tag), SetAt(r, p, s.val))

\* a variant of unmarshalTag that looks a field without a tag up under its
\* name
unmarshalTag_FieldName(f, p, m, r) ==
    IF f.tag = <<>>
    THEN IF f.name = "Extra" /\ EXTRA \in DOMAIN m
         THEN Continue(Delete(m, EXTRA), SetAt(r, p, m[EXTRA]))
         ELSE Continue(m, r)
    ELSE IF ~CanSet(f) THEN Return(ErrUnexportedField, m, r)
    ELSE IF f.tag \notin DOMAIN m THEN Continue(m, r)
    ELSE LET s == set(f.type, m[f.tag])
         IN  IF s.err # "" THEN Return(s.err, m, r)
             ELSE Continue(Delete(m, f.tag), SetAt(r, p, s.val))

\* a variant of unmarshalTag that resets a field whose key is not in m
unmarshalTag_ResetsMissing(f, p, m, r) ==
    IF f.tag = <<>> THEN Continue(m, r)
    ELSE IF ~CanSet(f) THEN Return(ErrUnexportedField, m, r)
    ELSE IF f.tag \notin DOMAIN m THEN Continue(m, SetAt(r, p, Zero(f.type)))
    ELSE LET s == set(f.type, m[f.tag])
         IN  IF s.err # "" THEN Return(s.err, m, r)
             ELSE Continue(Delete(m, f.tag), SetAt(r, p, s.val))

\* a variant of unmarshalTag that stores the pointer set has allocated even
\* when the conversion fails
unmarshalTag_StoresOnError(f, p, m, r) ==
    IF f.tag = <<>> THEN Continue(m, r)
    ELSE IF ~CanSet(f) THEN Return(ErrUnexportedField, m, r)
    ELSE IF f.tag \notin DOMAIN m THEN Continue(m, r)
    ELSE LET s == set(f.type, m[f.tag])
         IN  IF s.err # ""
             THEN Return(s.err, m,
                         IF f.type.kind = "ptr"
                         THEN SetAt(r, p, << Zero(f.type.elem) >>) ELSE r)
             ELSE Continue(Delete(m, f.tag), SetAt(r, p, s.val))

\* a variant of unmarshalTag that looks at the type of the field before it
\* looks for the key
unmarshalTag_TypeFirst(f, p, m, r) ==
    IF f.tag = <<>> THEN Continue(m, r)
    ELSE IF ~CanSet(f) THEN Return(ErrUnexportedField, m, r)
    ELSE IF set(f.type, <<>>).err = ErrUnsupportedType
         THEN Return(ErrUnsupportedType, m, r)
    ELSE IF f.tag \notin DOMAIN m THEN Continue(m, r)
    ELSE LET s == set(f.type, m[f.tag])
         IN  IF s.err # "" THEN Return(s.err, m, r)
             ELSE Continue(Delete(m, f.tag), SetAt(r, p, s.val))

\* the tag of field f at path p is looked up in m and the value is stored
unmarshalTag(f, p, m, r) ==
    IF f.tag = <<>> THEN Continue(m, r)
    ELSE IF ~CanSet(f) THEN Return(ErrUnexportedField, m, r)
    ELSE IF f.tag \notin DOMAIN m THEN Continue(m, r)
    ELSE LET s == set(f.type, m[f.tag])
         IN  IF s.err # "" THEN Return(s.err, m, r)
             ELSE Continue(Delete(m, f.tag), SetAt(r, p, s.val))

\* a call frame of Unmarshal: the fields of the struct rv, the path of rv in
\* the caller's record, the loop index i (from 1) and whether the struct
\* case of iteration i is behind ("tag") or ahead ("field")
UFrame(fields, path) ==
    [fields |-> fields, path |-> path, i |-> 1, pos |-> "field"]

Top == stack[Len(stack)]

\* the stack with its top frame replaced
WithTop(fr) == [stack EXCEPT ![Len(stack)] = fr]

\* the top frame moved on to the next loop iteration
NextField == [Top EXCEPT !.i = Top.i + 1, !.pos = "field"]

Idle == pc \in {"idle", "done"} /\ calls < MaxCalls

CallUnmarshal(target) ==
    /\ Idle
    /\ op' = "Unmarshal"
    /\ v' = target
    /\ es0' = es
    /\ rec0' = rec
    /\ trip' = FALSE
    /\ calls' = calls + 1
    /\ errValue' = <<>>
    /\ IF InvalidValue(target)
       THEN pc' = "done" /\ err' = ErrInvalidValue /\ stack' = <<>>
       ELSE /\ pc' = "running"
            /\ err' = ""
            /\ stack' = << UFrame(TypeOf(typ).fields, <<>>) >>
    /\ repeat' = FALSE
    /\ UNCHANGED <<environ, cs, typ, rec, es, out, src>>

\* the effect of unmarshalTag on the state
UnmarshalApply(r) ==
    /\ es' = r.es
    /\ rec' = r.rec
    /\ errValue' = r.value
    /\ IF r.return
       THEN pc' = "done" /\ err' = r.err /\ stack' = <<>>
       ELSE pc' = "running" /\ err' = err /\ stack' = WithTop(NextField)

\* one loop iteration, up to the recursive call when the field is a struct;
\* tagStep is the part of the iteration that follows the struct case
FieldStep(tagStep(_, _, _, _)) ==
    /\ pc = "running" /\ op = "Unmarshal"
    /\ Top.pos = "field" /\ Top.i <= Len(Top.fields)
    /\ LET f == Top.fields[Top.i]
           p == Top.path \o << Top.i >>
       IN  IF f.type.kind = "struct"
           THEN /\ IF ~CanInterface(f)
                   THEN stack' = WithTop(NextField)
                   ELSE stack' = WithTop([Top EXCEPT !.pos = "tag"])
                                   \o << UFrame(f.type.fields, p) >>
                /\ UNCHANGED <<es, rec, pc, err, errValue>>
           ELSE UnmarshalApply(tagStep(f, p, es, rec))
    /\ UNCHANGED <<repeat, environ, cs, typ, v, op, out, es0, rec0, src, trip, calls>>

\* the rest of a loop iteration after the recursive call has returned nil
TagStep(tagStep(_, _, _, _)) ==
    /\ pc = "running" /\ op = "Unmarshal"
    /\ Top.pos = "tag"
    /\ UnmarshalApply(tagStep(Top.fields[Top.i], Top.path \o << Top.i >>,
                               es, rec))
    /\ UNCHANGED <<repeat, environ, cs, typ, v, op, out, es0, rec0, src, trip, calls>>

UnmarshalField == FieldStep(unmarshalTag)

UnmarshalTag == TagStep(unmarshalTag)

\* the loop is over: return nil
UnmarshalReturn ==
    /\ pc = "running" /\ op = "Unmarshal"
    /\ Top.pos = "field" /\ Top.i > Len(Top.fields)
    /\ stack' = SubSeq(stack, 1, Len(stack) - 1)
    /\ pc' = IF Len(stack) = 1 THEN "done" ELSE "running"
    /\ UNCHANGED <<repeat, environ, cs, typ, rec, es, v, op, out, err, errValue, es0, rec0, src, trip,
                   calls>>

----------------------------------------------------------------------------
(* Tags with several keys and options *)

ErrMissingRequiredValue == "ErrMissingRequiredValue"

TagTypeNames == { "MultipleTagsStruct", "DefaultValueStruct", "Environment" }

RECURSIVE Split(_, _)
\* strings.Split(s, sep) for a separator of one character
Split(s, sep) ==
    IF \A n \in 1..Len(s) : s[n] # sep THEN << s >>
    ELSE LET n == CHOOSE n \in 1..Len(s) :
                    s[n] = sep /\ \A j \in 1..(n - 1) : s[j] # sep
         IN  << SubSeq(s, 1, n - 1) >> \o Split(SubSeq(s, n + 1, Len(s)), sep)

\* a tag segment of the form name=value is an option, any other is a key
IsOption(seg) == \E n \in 1..Len(seg) : seg[n] = "="

\* the name and the value of an option: what is before and after its first =
OptionName(seg) == Split(seg, "=")[1]
OptionValue(seg) == SubSeq(seg, Len(OptionName(seg)) + 2, Len(seg))

\* the value of the last option called name in segs, or none
Option(segs, name) ==
    LET found == SelectSeq(segs,
                     LAMBDA x : IsOption(x) /\ OptionName(x) = name)
    IN  IF found = <<>> THEN [given |-> FALSE, value |-> <<>>]
        ELSE [given |-> TRUE, value |-> OptionValue(found[Len(found)])]

\* the binding metadata of a tag: its candidate keys in order, and its
\* default, required and separator options
parseTag(tag) ==
    LET segs == Split(tag, ",")
    IN  [ Keys |-> SelectSeq(segs, LAMBDA x : ~IsOption(x)),
          HasDefault |-> Option(segs, <<"d", "e", "f", "a", "u", "l", "t">>).given,
          Default |-> Option(segs, <<"d", "e", "f", "a", "u", "l", "t">>).value,
          Required |-> Option(segs, <<"r", "e", "q", "u", "i", "r", "e", "d">>).value = <<"t", "r", "u", "e">>,
          Separator |-> IF Option(segs, <<"s", "e", "p", "a", "r", "a", "t", "o", "r">>).given
                        THEN Option(segs, <<"s", "e", "p", "a", "r", "a", "t", "o", "r">>).value
                        ELSE <<"|">> ]

\* base64.StdEncoding on the strings the model's records hold: each string
\* and its encoding
Base64Table ==
    { << <<>>, <<>> >>,
      << <<"a">>, <<"Y", "Q", "=", "=">> >>,
      << <<"b", "=", "c">>, <<"Y", "j", "1", "j">> >> }

ErrCorruptInput == "base64.CorruptInputError"

\* base64.StdEncoding.EncodeToString([]byte(b))
Base64Encode(b) == (CHOOSE e \in Base64Table : e[1] = b)[2]

\* base64.StdEncoding.DecodeString(data), for data that is an encoding of
\* Base64Table or is no base64 text at all
Base64Decode(data) ==
    IF \E e \in Base64Table : e[2] = data
    THEN [err |-> "", val |-> (CHOOSE e \in Base64Table : e[2] = data)[1]]
    ELSE [err |-> ErrCorruptInput, val |-> <<>>]

ErrJSON == "json.SyntaxError"

JSONPrefix ==
    <<"{", "\"", "s", "o", "m", "e", "F", "i", "e", "l", "d", "\"", ":">>

\* json.Marshal of a JSONData: {"someField":n}
JSONMarshal(j) == JSONPrefix \o FormatInt(j[1]) \o <<"}">>

\* json.Unmarshal into a JSONData of a text holding the one member
\* someField, white space between the tokens skipped; any other text of the
\* model is no JSON object
JSONUnmarshal(data) ==
    LET text == SelectSeq(data, LAMBDA c : c # " ")
        n == Len(JSONPrefix)
        number == SubSeq(text, n + 1, Len(text) - 1)
    IN  IF /\ Len(text) > n + 1
           /\ SubSeq(text, 1, n) = JSONPrefix
           /\ text[Len(text)] = "}"
           /\ Atoi(number).err = ""
           /\ number[1] # "+"
        THEN [err |-> "", val |-> << Atoi(number).val >>]
        ELSE [err |-> ErrJSON, val |-> <<>>]

\* t's UnmarshalEnvironmentValue(data)
UnmarshalEnvironmentValue(t, data) ==
    IF Coder(t) = "base64" THEN Base64Decode(data) ELSE JSONUnmarshal(data)

\* t's MarshalEnvironmentValue(), of the value x
MarshalEnvironmentValue(t, x) ==
    IF Coder(t) = "base64" THEN Base64Encode(x) ELSE JSONMarshal(x)

RECURSIVE decodeValue(_, _, _)
RECURSIVE decodePieces(_, _, _)
\* the conversions of the pieces of a split value to type t, in their order,
\* up to the first that fails
decodePieces(t, pieces, sep) ==
    IF pieces = <<>> THEN [err |-> "", val |-> <<>>]
    ELSE LET r == decodeValue(t, Head(pieces), sep)
             rest == decodePieces(t, Tail(pieces), sep)
         IN  IF r.err # "" THEN [err |-> r.err, val |-> <<>>]
             ELSE IF rest.err # "" THEN rest
             ELSE [err |-> "", val |-> << r.val >> \o rest.val]

\* a variant of decodeValue that splits on | whatever the tag's separator
decodeValue_DefaultSeparator(t, value, sep) ==
    IF Coder(t) # "" THEN UnmarshalEnvironmentValue(t, value)
    ELSE
    CASE t.kind = "ptr" ->
            LET r == decodeValue(t.elem, value, sep)
            IN  IF r.err # "" THEN r ELSE [err |-> "", val |-> << r.val >>]
      [] t.kind = "slice" -> decodePieces(t.elem, Split(value, "|"), sep)
      [] OTHER -> set(t, value)

\* a variant of decodeValue that does not look for UnmarshalEnvironmentValue
decodeValue_BuiltInOnly(t, value, sep) ==
    CASE t.kind = "ptr" ->
            LET r == decodeValue(t.elem, value, sep)
            IN  IF r.err # "" THEN r ELSE [err |-> "", val |-> << r.val >>]
      [] t.kind = "slice" -> decodePieces(t.elem, Split(value, sep[1]), sep)
      [] OTHER -> set(t, value)

\* set for the types of the later versions: a type with
\* UnmarshalEnvironmentValue is converted by it, before every other rule; a
\* repeated-value field is split on the separator of its tag and each piece
\* converted by the rule of the element type, in split order; every other
\* type as set does
decodeValue(t, value, sep) ==
    IF Coder(t) # "" THEN UnmarshalEnvironmentValue(t, value)
    ELSE
    CASE t.kind = "ptr" ->
            LET r == decodeValue(t.elem, value, sep)
            IN  IF r.err # "" THEN r ELSE [err |-> "", val |-> << r.val >>]
      [] t.kind = "slice" -> decodePieces(t.elem, Split(value, sep[1]), sep)
      [] OTHER -> set(t, value)

\* a variant of firstPresent in which the last candidate key in m wins
firstPresent_Last(keys, m) ==
    IF \A n \in 1..Len(keys) : keys[n] \notin DOMAIN m
    THEN [ok |-> FALSE, key |-> <<>>]
    ELSE [ok |-> TRUE,
          key |-> keys[CHOOSE n \in 1..Len(keys) :
                          /\ keys[n] \in DOMAIN m
                          /\ \A j \in (n + 1)..Len(keys) :
                                keys[j] \notin DOMAIN m]]

\* the first of the candidate keys that is in m, or none
firstPresent(keys, m) ==
    IF \A n \in 1..Len(keys) : keys[n] \notin DOMAIN m
    THEN [ok |-> FALSE, key |-> <<>>]
    ELSE [ok |-> TRUE,
          key |-> keys[CHOOSE n \in 1..Len(keys) :
                          /\ keys[n] \in DOMAIN m
                          /\ \A j \in 1..(n - 1) : keys[j] \notin DOMAIN m]]

\* a variant of ReturnMissing that does not say which key is missing
ReturnMissing_Nothing(key, m, r) ==
    [return |-> TRUE, err |-> ErrMissingRequiredValue, value |-> <<>>,
     es |-> m, rec |-> r]

\* return &ErrMissingRequiredValue{Value: key}
ReturnMissing(key, m, r) ==
    [return |-> TRUE, err |-> ErrMissingRequiredValue, value |-> key,
     es |-> m, rec |-> r]

\* a variant of decodeTag in which a default is stored whether or not a
\* candidate key is in m
decodeTag_DefaultAlways(f, p, m, r) ==
    IF f.tag = <<>> THEN Continue(m, r)
    ELSE IF ~CanSet(f) THEN Return(ErrUnexportedField, m, r)
    ELSE LET envTag == parseTag(f.tag)
             found == firstPresent(envTag.Keys, m)
         IN  IF envTag.HasDefault
             THEN LET s == decodeValue(f.type, envTag.Default, envTag.Separator)
                  IN  IF s.err # "" THEN Return(s.err, m, r)
                      ELSE Continue(m, SetAt(r, p, s.val))
             ELSE IF found.ok
             THEN LET s == decodeValue(f.type, m[found.key], envTag.Separator)
                  IN  IF s.err # "" THEN Return(s.err, m, r)
                      ELSE Continue(Delete(m, f.tag), SetAt(r, p, s.val))
             ELSE IF envTag.Required
             THEN ReturnMissing(envTag.Keys[1], m, r)
             ELSE Continue(m, r)

\* unmarshalTag for a tag with several keys and options: the value of the
\* first candidate key in m is stored; with no key in m the default is
\* stored, or a required field fails, or the loop goes on.  What is deleted
\* from m is the entry under the tag as written (delete(es, tag)), which is
\* the matched key only for a tag of one key and no option: a key of a tag
\* with options is still in m when Unmarshal is called again with the same
\* map (TestUnmarshalRequiredValues)
decodeTag(f, p, m, r) ==
    IF f.tag = <<>> THEN Continue(m, r)
    ELSE IF ~CanSet(f) THEN Return(ErrUnexportedField, m, r)
    ELSE LET envTag == parseTag(f.tag)
             found == firstPresent(envTag.Keys, m)
         IN  IF found.ok
             THEN LET s == decodeValue(f.type, m[found.key], envTag.Separator)
                  IN  IF s.err # "" THEN Return(s.err, m, r)
                      ELSE Continue(Delete(m, f.tag), SetAt(r, p, s.val))
             ELSE IF envTag.HasDefault
             THEN LET s == decodeValue(f.type, envTag.Default, envTag.Separator)
                  IN  IF s.err # "" THEN Return(s.err, m, r)
                      ELSE Continue(m, SetAt(r, p, s.val))
             ELSE IF envTag.Required
             THEN ReturnMissing(envTag.Keys[1], m, r)
             ELSE Continue(m, r)

DecodeField == FieldStep(decodeTag)

DecodeTag == TagStep(decodeTag)

RECURSIVE KeysOf(_)
\* every candidate key written in a struct type, nested structs included
KeysOf(t) ==
    IF t.kind # "struct" THEN {}
    ELSE UNION { (IF t.fields[i].tag = <<>> THEN {}
                  ELSE { parseTag(t.fields[i].tag).Keys[n] :
                           n \in 1..Len(parseTag(t.fields[i].tag).Keys) })
                 \cup KeysOf(t.fields[i].type) : i \in 1..Len(t.fields) }

----------------------------------------------------------------------------
(* Marshal *)

\* the texts fmt prints for the address held by a non-nil pointer; which one
\* depends on where the allocator put the pointee
Addrs ==
    { <<"0", "x", "c", "0", "0", "0", "0", "1", "0", "2", "5", "0">>,
      <<"0", "x", "c", "0", "0", "0", "0", "1", "c", "0", "3", "0">> }

NilText == <<"<", "n", "i", "l", ">">>

\* the zero time.Time printed by its String method
ZeroTimeText ==
    <<"0", "0", "0", "1", "-", "0", "1", "-", "0", "1", " ",
      "0", "0", ":", "0", "0", ":", "0", "0", " ",
      "+", "0", "0", "0", "0", " ", "U", "T", "C">>

RECURSIVE Sprintf(_, _, _)
\* fmt.Sprintf("%v", x) for x of type t; addr is the text of the address of
\* the pointee when x is a non-nil pointer
Sprintf(t, x, addr) ==
    CASE t.kind = "string" -> x
      [] t.kind = "bool" -> FormatBool(x)
      [] t.kind = "ptr" -> IF x = <<>> THEN NilText ELSE addr
      [] t.kind = "struct" ->
            IF t.name = "time.Time" THEN ZeroTimeText
            ELSE LET RECURSIVE join(_)
                     join(i) ==
                        IF i > Len(t.fields) THEN <<>>
                        ELSE (IF i > 1 THEN <<" ">> ELSE <<>>)
                             \o Sprintf(t.fields[i].type, x[i], addr)
                             \o join(i + 1)
                 IN  <<"{">> \o join(1) \o <<"}">>
      [] OTHER -> FormatInt(x)

\* result of the part of a loop iteration that follows the struct case:
\* either the loop goes on with the frame's map m, or Marshal panics
Emit(m) == [panic |-> FALSE, es |-> m]
Panics == [panic |-> TRUE, es |-> EmptySet]

\* a variant of marshalTag without the pointer case: a pointer field is
\* printed as it is, nil included
marshalTag_PrintsNil(f, x, m, addr) ==
    IF f.tag = <<>> THEN Emit(m)
    ELSE IF ~CanInterface(f) THEN Panics
    ELSE Emit(Put(m, f.tag, Sprintf(f.type, x, addr)))

\* the value x of field f is printed under the field's tag into m;
\* valueField.Interface() panics on an unexported field
marshalTag(f, x, m, addr) ==
    IF f.tag = <<>> THEN Emit(m)
    ELSE IF f.type.kind = "ptr"
         THEN IF x = <<>> THEN Emit(m)
              ELSE IF ~CanInterface(f) THEN Panics
              ELSE Emit(Put(m, f.tag, Sprintf(f.type.elem, x[1], addr)))
         ELSE IF ~CanInterface(f) THEN Panics
              ELSE Emit(Put(m, f.tag, Sprintf(f.type, x, addr)))

\* a call frame of Marshal: as for Unmarshal, with the call's own map es
MFrame(fields, path) ==
    [fields |-> fields, path |-> path, i |-> 1, pos |-> "field",
     es |-> EmptySet]

CallMarshal(target) ==
    /\ Idle
    /\ op' = "Marshal"
    /\ v' = target
    /\ es0' = es
    /\ rec0' = rec
    /\ src' = rec
    /\ trip' = FALSE
    /\ calls' = calls + 1
    /\ out' = Nil
    /\ errValue' = <<>>
    /\ IF InvalidValue(target)
       THEN pc' = "done" /\ err' = ErrInvalidValue /\ stack' = <<>>
       ELSE /\ pc' = "running"
            /\ err' = ""
            /\ stack' = << MFrame(TypeOf(typ).fields, <<>>) >>
    /\ repeat' = FALSE
    /\ UNCHANGED <<environ, cs, typ, rec, es>>

\* the effect of marshalTag on the state
MarshalApply(r) ==
    IF r.panic
    THEN pc' = "done" /\ err' = Panic /\ stack' = <<>>
    ELSE /\ pc' = "running" /\ err' = err
         /\ stack' = WithTop([NextField EXCEPT !.es = r.es])

\* one loop iteration, up to the recursive call when the field is a struct
MarshalField(addr) ==
    /\ pc = "running" /\ op = "Marshal"
    /\ Top.pos = "field" /\ Top.i <= Len(Top.fields)
    /\ LET f == Top.fields[Top.i]
           p == Top.path \o << Top.i >>
       IN  IF f.type.kind = "struct"
           THEN /\ IF ~CanInterface(f)
                   THEN stack' = WithTop(NextField)
                   ELSE stack' = WithTop([Top EXCEPT !.pos = "tag"])
                                   \o << MFrame(f.type.fields, p) >>
                /\ UNCHANGED <<pc, err>>
           ELSE MarshalApply(marshalTag(f, GetAt(rec, p), Top.es, addr))
    /\ UNCHANGED <<repeat, environ, cs, typ, rec, es, v, op, out, errValue, es0, rec0, src, trip,
                   calls>>

\* the rest of a loop iteration after the recursive call has returned
MarshalTag(addr) ==
    /\ pc = "running" /\ op = "Marshal"
    /\ Top.pos = "tag"
    /\ MarshalApply(marshalTag(Top.fields[Top.i],
                                GetAt(rec, Top.path \o << Top.i >>),
                                Top.es, addr))
    /\ UNCHANGED <<repeat, environ, cs, typ, rec, es, v, op, out, errValue, es0, rec0, src, trip,
                   calls>>

\* the loop is over: return es, which the calling Marshal merges into its own
MarshalReturn ==
    /\ pc = "running" /\ op = "Marshal"
    /\ Top.pos = "field" /\ Top.i > Len(Top.fields)
    /\ IF Len(stack) = 1
       THEN pc' = "done" /\ out' = Top.es /\ stack' = <<>>
       ELSE LET caller == stack[Len(stack) - 1]
            IN  /\ pc' = "running" /\ out' = out
                /\ stack' = SubSeq(stack, 1, Len(stack) - 2)
                       \o << [caller EXCEPT !.es = Merge(caller.es, Top.es)] >>
    /\ UNCHANGED <<repeat, environ, cs, typ, rec, es, v, op, err, errValue, es0, rec0, src, trip,
                   calls>>

\* the caller decodes the EnvSet Marshal returned into a fresh zero record
RoundTrip ==
    /\ Idle
    /\ op = "Marshal" /\ pc = "done" /\ err = ""
    /\ op' = "Unmarshal"
    /\ v' = PointerToStruct
    /\ es' = out
    /\ rec' = Zero(TypeOf(typ))
    /\ es0' = out
    /\ rec0' = Zero(TypeOf(typ))
    /\ trip' = TRUE
    /\ calls' = calls + 1
    /\ pc' = "running"
    /\ err' = ""
    /\ errValue' = <<>>
    /\ stack' = << UFrame(TypeOf(typ).fields, <<>>) >>
    /\ repeat' = FALSE
    /\ UNCHANGED <<environ, cs, typ, out, src>>

\* the caller calls Unmarshal once more, with the EnvSet and the record the
\* call before has left, after that call has returned nil
DecodeAgain ==
    /\ Idle
    /\ op = "Unmarshal" /\ pc = "done" /\ err = "" /\ v = PointerToStruct
    /\ es0' = es
    /\ rec0' = rec
    /\ trip' = FALSE
    /\ repeat' = TRUE
    /\ calls' = calls + 1
    /\ pc' = "running"
    /\ errValue' = <<>>
    /\ stack' = << UFrame(TypeOf(typ).fields, <<>>) >>
    /\ UNCHANGED <<environ, cs, typ, rec, es, v, op, err, out, src>>

----------------------------------------------------------------------------
(* Marshal of the later versions: tags with several keys, custom coders *)

\* m with x under every key of keys
PutAll(m, keys, x) ==
    LET ks == { keys[n] : n \in 1..Len(keys) }
    IN  [k \in DOMAIN m \cup ks |-> IF k \in ks THEN x ELSE m[k]]

\* the text Marshal emits for the value el of type t: what
\* MarshalEnvironmentValue returns for a type that has it, else
\* fmt.Sprintf("%v", el)
encodeValue(t, el, addr) ==
    IF Coder(t) # "" THEN MarshalEnvironmentValue(t, el)
    ELSE Sprintf(t, el, addr)

\* a variant of encodeTag that emits under the first key of the tag only
encodeTag_FirstKey(f, x, m, addr) ==
    IF f.tag = <<>> THEN Emit(m)
    ELSE IF f.type.kind = "ptr" /\ x = <<>> THEN Emit(m)
    ELSE IF ~CanInterface(f) THEN Panics
    ELSE IF f.type.kind = "ptr"
    THEN Emit(Put(m, parseTag(f.tag).Keys[1],
                  encodeValue(f.type.elem, x[1], addr)))
    ELSE Emit(Put(m, parseTag(f.tag).Keys[1], encodeValue(f.type, x, addr)))

\* a variant of encodeTag that emits under every segment of the tag
\* (strings.Split(tag, ",")), the options included
encodeTag_EverySegment(f, x, m, addr) ==
    IF f.tag = <<>> THEN Emit(m)
    ELSE IF f.type.kind = "ptr" /\ x = <<>> THEN Emit(m)
    ELSE IF ~CanInterface(f) THEN Panics
    ELSE IF f.type.kind = "ptr"
    THEN Emit(PutAll(m, Split(f.tag, ","),
                     encodeValue(f.type.elem, x[1], addr)))
    ELSE Emit(PutAll(m, Split(f.tag, ","), encodeValue(f.type, x, addr)))

\* marshalTag for a tag with several keys and options: the text of the value
\* is emitted under every candidate key of the tag, and under no option
encodeTag(f, x, m, addr) ==
    IF f.tag = <<>> THEN Emit(m)
    ELSE IF f.type.kind = "ptr" /\ x = <<>> THEN Emit(m)
    ELSE IF ~CanInterface(f) THEN Panics
    ELSE IF f.type.kind = "ptr"
    THEN Emit(PutAll(m, parseTag(f.tag).Keys,
                     encodeValue(f.type.elem, x[1], addr)))
    ELSE Emit(PutAll(m, parseTag(f.tag).Keys, encodeValue(f.type, x, addr)))

\* MarshalField with encodeTag
EncodeField(addr) ==
    /\ pc = "running" /\ op = "Marshal"
    /\ Top.pos = "field" /\ Top.i <= Len(Top.fields)
    /\ LET f == Top.fields[Top.i]
           p == Top.path \o << Top.i >>
       IN  IF f.type.kind = "struct"
           THEN /\ IF ~CanInterface(f)
                   THEN stack' = WithTop(NextField)
                   ELSE stack' = WithTop([Top EXCEPT !.pos = "tag"])
                                   \o << MFrame(f.type.fields, p) >>
                /\ UNCHANGED <<pc, err>>
           ELSE MarshalApply(encodeTag(f, GetAt(rec, p), Top.es, addr))
    /\ UNCHANGED <<repeat, environ, cs, typ, rec, es, v, op, out, errValue, es0, rec0, src, trip,
                   calls>>

\* MarshalTag with encodeTag
EncodeTag(addr) ==
    /\ pc = "running" /\ op = "Marshal"
    /\ Top.pos = "tag"
    /\ MarshalApply(encodeTag(Top.fields[Top.i],
                               GetAt(rec, Top.path \o << Top.i >>),
                               Top.es, addr))
    /\ UNCHANGED <<repeat, environ, cs, typ, rec, es, v, op, out, errValue, es0, rec0, src, trip,
                   calls>>

----------------------------------------------------------------------------

\* the state before the first call, for a record type and EnvSet drawn from
\* the given ones
Start(names, sets(_)) ==
    /\ typ \in names
    /\ rec \in { Sample(TypeOf(typ), s) : s \in Samples }
    /\ es \in sets(TypeOf(typ))
    /\ v = NilInterface
    /\ op = "none"
    /\ pc = "idle"
    /\ stack = <<>>
    /\ out = Nil
    /\ err = ""
    /\ errValue = <<>>
    /\ es0 = es
    /\ rec0 = rec
    /\ src = rec
    /\ trip = FALSE
    /\ calls = 0
    /\ environ = <<>>
    /\ cs = EmptySet
    /\ repeat = FALSE

Init == Start(TypeNames, EnvSets)

Next ==
    \/ \E target \in Targets : CallUnmarshal(target)
    \/ UnmarshalField
    \/ UnmarshalTag
    \/ UnmarshalReturn
    \/ \E target \in Targets : CallMarshal(target)
    \/ \E addr \in Addrs : MarshalField(addr)
    \/ \E addr \in Addrs : MarshalTag(addr)
    \/ MarshalReturn
    \/ RoundTrip

Spec == Init /\ [][Next]_vars

\* Unmarshal on record types whose tags have several keys and options
TagEnvSets(t) == EnvSetsOver(KeysOf(t) \cup {EXTRA})

InitTag == Start(TagTypeNames, TagEnvSets)

NextTag ==
    \/ \E target \in Targets : CallUnmarshal(target)
    \/ DecodeField
    \/ DecodeTag
    \/ UnmarshalReturn

SpecTag == InitTag /\ [][NextTag]_vars

\* Unmarshal on a record type with repeated-value fields
SliceTypeNames == { "IterValuesStruct", "Environment" }

SliceValues ==
    { <<>>, <<"1", "|", "2">>, <<"1", "&", "2">>, <<"k", "=", "v", "|", "b">>,
      <<"t", "r", "u", "e", "|", "f", "a", "l", "s", "e">> }

SliceEnvSets(t) ==
    UNION { [d -> SliceValues] :
              d \in { d \in SUBSET KeysOf(t) : Cardinality(d) <= MaxEnv } }

InitSlice == Start(SliceTypeNames, SliceEnvSets)

SpecSlice == InitSlice /\ [][NextTag]_vars

\* Unmarshal and Marshal on a record type whose fields have custom coders
CoderTypeNames == { "CustomStruct" }

CoderValues ==
    { <<>>, <<"1">>, <<"Y", "Q", "=", "=">>, <<"Y", "j", "1", "j">>,
      JSONPrefix \o <<"7", "}">>,
      <<"{", " ">> \o SubSeq(JSONPrefix, 2, Len(JSONPrefix))
          \o <<" ", "4", "3", " ", "}">> }

CoderEnvSets(t) ==
    UNION { [d -> CoderValues] :
              d \in { d \in SUBSET KeysOf(t) : Cardinality(d) <= MaxEnv } }

InitCoder == Start(CoderTypeNames, CoderEnvSets)

NextCoder ==
    \/ \E target \in Targets : CallUnmarshal(target)
    \/ DecodeField
    \/ DecodeTag
    \/ UnmarshalReturn
    \/ \E target \in Targets : CallMarshal(target)
    \/ \E addr \in Addrs : EncodeField(addr)
    \/ \E addr \in Addrs : EncodeTag(addr)
    \/ MarshalReturn

SpecCoder == InitCoder /\ [][NextCoder]_vars

\* Marshal on record types whose tags have several keys and options
EncodeTypeNames == TagTypeNames \cup { "RequiredValueStruct" }

NoEnvSets(t) == { EmptySet }

InitEncode == Start(EncodeTypeNames, NoEnvSets)

NextEncode ==
    \/ \E target \in Targets : CallMarshal(target)
    \/ \E addr \in Addrs : EncodeField(addr)
    \/ \E addr \in Addrs : EncodeTag(addr)
    \/ MarshalReturn

SpecEncode == InitEncode /\ [][NextEncode]_vars

\* Unmarshal on a record type with required fields
RequiredTypeNames == { "RequiredValueStruct", "Environment" }

InitRequired == Start(RequiredTypeNames, TagEnvSets)

SpecRequired == InitRequired /\ [][NextTag]_vars

\* Unmarshal alone
NextUnmarshal ==
    \/ \E target \in Targets : CallUnmarshal(target)
    \/ UnmarshalField
    \/ UnmarshalTag
    \/ UnmarshalReturn

\* Unmarshal, and Unmarshal called again on what it has left
NextAgain ==
    \/ \E target \in Targets : CallUnmarshal(target)
    \/ UnmarshalField
    \/ UnmarshalTag
    \/ UnmarshalReturn
    \/ DecodeAgain

SpecAgain == Init /\ [][NextAgain]_vars

\* Unmarshal of records with several tagged fields, nested ones included, on
\* EnvSets some values of which do not convert
FailFastTypeNames ==
    { "ValidStruct", "JenkinsEnvironment", "UnsupportedFirstStruct" }

FailFastEnvSets(t) == EnvSetsOver(TagsOf(t))

InitFailFast == Start(FailFastTypeNames, FailFastEnvSets)

SpecFailFast == InitFailFast /\ [][NextUnmarshal]_vars

\* Unmarshal and Marshal of records two fields of which have the same key
SharedTypeNames ==
    { "SharedStruct", "SharedLaterStruct", "TwoNestedStruct" }

InitShared == Start(SharedTypeNames, EnvSets)

SpecShared == InitShared /\ [][Next]_vars

\* Unmarshal of ValidStruct on the values a bool can be given
BoolTypeNames == { "ValidStruct" }

BoolValues ==
    TrueTexts \cup FalseTexts
       \cup { <<>>, <<"2">>, <<"y", "e", "s">>, <<"t", "R", "U", "E">>,
              <<"F", "a", "l", "s", "e", " ">> }

BoolEnvSets(t) == { EmptySet } \cup { [k \in {BOOL} |-> x] : x \in BoolValues }

InitBool == Start(BoolTypeNames, BoolEnvSets)

SpecBool == InitBool /\ [][NextUnmarshal]_vars

----------------------------------------------------------------------------
(* EnvSet, ChangeSet and the environ of the operating system *)

ErrInvalidEnviron == "ErrInvalidEnviron"

\* strings.SplitN(s, sep, n) for n > 0 and a separator of one character:
\* every substring is split off like this
SplitN_All(s, sep, n) == Split(s, sep)

RECURSIVE SplitN(_, _, _)
\* strings.SplitN(s, sep, n) for n > 0 and a separator of one character: at
\* most n substrings, the last of which is the unsplit remainder
SplitN(s, sep, n) ==
    IF n = 1 \/ \A j \in 1..Len(s) : s[j] # sep THEN << s >>
    ELSE LET i == CHOOSE i \in 1..Len(s) :
                    s[i] = sep /\ \A j \in 1..(i - 1) : s[j] # sep
         IN  << SubSeq(s, 1, i - 1) >>
                \o SplitN(SubSeq(s, i + 1, Len(s)), sep, n - 1)

\* the items of the environs given to EnvironToEnvSet
EnvironItems ==
    { HOME \o <<"=", "a">>, HOME \o <<"=">>,
      WORKSPACE \o <<"=", "1", "=", "2">>, <<"I", "N", "V">> }

RECURSIVE SeqsUpTo(_, _)
\* the sequences of at most n elements of S
SeqsUpTo(S, n) ==
    IF n = 0 THEN { <<>> }
    ELSE SeqsUpTo(S, n - 1)
            \cup { Append(q, x) : q \in { q \in SeqsUpTo(S, n - 1) : Len(q) = n - 1 },
                                  x \in S }

Environs == SeqsUpTo(EnvironItems, MaxEnv)

\* the frame of EnvironToEnvSet: the map m and the position of the range loop
EFrame(m, i) == [m |-> m, i |-> i]

\* m := make(EnvSet, len(environ))
CallEnvironToEnvSet(e) ==
    /\ Idle
    /\ op' = "EnvironToEnvSet"
    /\ environ' = e
    /\ pc' = "running"
    /\ stack' = << EFrame(EmptySet, 1) >>
    /\ out' = Nil
    /\ err' = ""
    /\ cs' = EmptySet
    /\ es0' = es
    /\ calls' = calls + 1
    /\ repeat' = FALSE
    /\ trip' = FALSE
    /\ UNCHANGED <<typ, rec, es, v, errValue, rec0, src>>

\* one iteration of for _, v := range environ
EnvironToEnvSetItem ==
    /\ pc = "running" /\ op = "EnvironToEnvSet"
    /\ Top.i <= Len(environ)
    /\ LET parts == SplitN(environ[Top.i], "=", 2)
       IN  IF Len(parts) # 2
           THEN /\ out' = Nil
                /\ err' = ErrInvalidEnviron
                /\ pc' = "done"
                /\ stack' = <<>>
           ELSE /\ stack' = << EFrame(Put(Top.m, parts[1], parts[2]), Top.i + 1) >>
                /\ UNCHANGED <<out, err, pc>>
    /\ UNCHANGED <<repeat, environ, cs, typ, rec, es, v, op, errValue, es0, rec0, src,
                   trip, calls>>

\* return m, nil
EnvironToEnvSetReturn ==
    /\ pc = "running" /\ op = "EnvironToEnvSet"
    /\ Top.i > Len(environ)
    /\ out' = Top.m
    /\ err' = ""
    /\ pc' = "done"
    /\ stack' = <<>>
    /\ UNCHANGED <<repeat, environ, cs, typ, rec, es, v, op, errValue, es0, rec0, src,
                   trip, calls>>

\* the ChangeSets given to Apply: a nil pointer is <<>>, a pointer to the
\* string s is << s >>
ChangeSets ==
    UNION { [d -> { <<>>, << <<>> >>, << <<"a">> >> }] :
              d \in SUBSET {HOME, WORKSPACE} }

\* the EnvSets Apply is called on
ApplyEnvSets(t) ==
    UNION { [d -> { <<"1">> }] : d \in SUBSET {HOME, WORKSPACE, EXTRA} }

\* the frame of Apply: the keys of cs the range loop has not visited yet
AFrame(todo) == [todo |-> todo]

CallApply(c) ==
    /\ Idle
    /\ op' = "Apply"
    /\ cs' = c
    /\ es0' = es
    /\ pc' = "running"
    /\ stack' = << AFrame(DOMAIN c) >>
    /\ environ' = <<>>
    /\ out' = Nil
    /\ err' = ""
    /\ calls' = calls + 1
    /\ repeat' = FALSE
    /\ trip' = FALSE
    /\ UNCHANGED <<typ, rec, es, v, errValue, rec0, src>>

\* one iteration of for k, v := range cs: a pointer to "" is taken as nil
ApplyItem_EmptyUnsets ==
    /\ pc = "running" /\ op = "Apply"
    /\ \E k \in Top.todo :
          /\ es' = IF cs[k] \in { <<>>, << <<>> >> } THEN Delete(es, k)
                   ELSE Put(es, k, cs[k][1])
          /\ stack' = << AFrame(Top.todo \ {k}) >>
    /\ UNCHANGED <<repeat, environ, cs, typ, rec, v, op, pc, out, err, errValue, es0,
                   rec0, src, trip, calls>>

\* one iteration of for k, v := range cs: the string is added to the end of
\* the value the key has
ApplyItem_Appends ==
    /\ pc = "running" /\ op = "Apply"
    /\ \E k \in Top.todo :
          /\ es' = IF cs[k] = <<>> THEN Delete(es, k)
                   ELSE IF k \in DOMAIN es THEN Put(es, k, es[k] \o cs[k][1])
                   ELSE Put(es, k, cs[k][1])
          /\ stack' = << AFrame(Top.todo \ {k}) >>
    /\ UNCHANGED <<repeat, environ, cs, typ, rec, v, op, pc, out, err, errValue,
                   es0, rec0, src, trip, calls>>

\* one iteration of for k, v := range cs, which visits the keys in any order
ApplyItem ==
    /\ pc = "running" /\ op = "Apply"
    /\ \E k \in Top.todo :
          /\ es' = IF cs[k] = <<>> THEN Delete(es, k)
                   ELSE Put(es, k, cs[k][1])
          /\ stack' = << AFrame(Top.todo \ {k}) >>
    /\ UNCHANGED <<repeat, environ, cs, typ, rec, v, op, pc, out, err, errValue, es0,
                   rec0, src, trip, calls>>

\* the range loop of Apply is over
ApplyReturn ==
    /\ pc = "running" /\ op = "Apply"
    /\ Top.todo = {}
    /\ pc' = "done"
    /\ stack' = <<>>
    /\ UNCHANGED <<repeat, environ, cs, typ, rec, es, v, op, out, err, errValue, es0,
                   rec0, src, trip, calls>>

\* the caller applies the same ChangeSet once more
ApplyAgain ==
    /\ Idle
    /\ op = "Apply" /\ pc = "done"
    /\ es0' = es
    /\ pc' = "running"
    /\ stack' = << AFrame(DOMAIN cs) >>
    /\ repeat' = TRUE
    /\ calls' = calls + 1
    /\ UNCHANGED <<environ, cs, typ, rec, es, v, op, out, err, errValue, rec0,
                   src, trip>>

\* the frame of EnvSetToEnviron: the keys of m the range loop has not visited
\* yet and the slice environ
FFrame(todo, items) == [todo |-> todo, environ |-> items]

\* environ := make([]string, 0, len(m)), m being the caller's EnvSet
CallEnvSetToEnviron ==
    /\ Idle
    /\ op' = "EnvSetToEnviron"
    /\ es0' = es
    /\ pc' = "running"
    /\ stack' = << FFrame(DOMAIN es, <<>>) >>
    /\ environ' = <<>>
    /\ cs' = EmptySet
    /\ out' = Nil
    /\ err' = ""
    /\ repeat' = FALSE
    /\ trip' = FALSE
    /\ calls' = calls + 1
    /\ UNCHANGED <<typ, rec, es, v, errValue, rec0, src>>

\* one iteration of for k, v := range m, which visits the keys in any order:
\* environ = append(environ, fmt.Sprintf("%s=%s", k, v))
EnvSetToEnvironItem ==
    /\ pc = "running" /\ op = "EnvSetToEnviron"
    /\ \E k \in Top.todo :
          stack' = << FFrame(Top.todo \ {k},
                             Append(Top.environ, k \o <<"=">> \o es[k])) >>
    /\ UNCHANGED <<repeat, environ, cs, typ, rec, es, v, op, pc, out, err,
                   errValue, es0, rec0, src, trip, calls>>

\* return environ
EnvSetToEnvironReturn ==
    /\ pc = "running" /\ op = "EnvSetToEnviron"
    /\ Top.todo = {}
    /\ environ' = Top.environ
    /\ pc' = "done"
    /\ stack' = <<>>
    /\ UNCHANGED <<repeat, cs, typ, rec, es, v, op, out, err, errValue, es0,
                   rec0, src, trip, calls>>

\* the caller gives the environ EnvSetToEnviron has returned to
\* EnvironToEnvSet
RoundTripEnviron ==
    /\ Idle
    /\ op = "EnvSetToEnviron" /\ pc = "done"
    /\ op' = "EnvironToEnvSet"
    /\ pc' = "running"
    /\ stack' = << EFrame(EmptySet, 1) >>
    /\ out' = Nil
    /\ err' = ""
    /\ es0' = es
    /\ trip' = TRUE
    /\ repeat' = FALSE
    /\ calls' = calls + 1
    /\ UNCHANGED <<environ, cs, typ, rec, es, v, errValue, rec0, src>>

InitEnvSet ==
    /\ Start({"MultipleTagsStruct"}, ApplyEnvSets)
    /\ rec = Zero(MultipleTagsStruct)

NextEnvSet ==
    \/ \E e \in Environs : CallEnvironToEnvSet(e)
    \/ EnvironToEnvSetItem
    \/ EnvironToEnvSetReturn
    \/ \E c \in ChangeSets : CallApply(c)
    \/ ApplyItem
    \/ ApplyReturn
    \/ ApplyAgain
    \/ CallEnvSetToEnviron
    \/ EnvSetToEnvironItem
    \/ EnvSetToEnvironReturn
    \/ RoundTripEnviron

SpecEnvSet == InitEnvSet /\ [][NextEnvSet]_vars

\* the EnvSets EnvSetToEnviron is called on: values that are empty or hold
\* a "=", and one key that holds a "="
FormatEnvSets(t) ==
    UNION { [d -> { <<>>, <<"1", "=", "2">> }] :
              d \in SUBSET {HOME, WORKSPACE, <<"K", "=">>} }

InitFormat ==
    /\ Start({"MultipleTagsStruct"}, FormatEnvSets)
    /\ rec = Zero(MultipleTagsStruct)

SpecFormat == InitFormat /\ [][NextEnvSet]_vars

----------------------------------------------------------------------------
(* What the properties below speak about *)

RECURSIVE TaggedFields(_, _, _)
\* the tagged fields of struct type t, nested structs included: the path of
\* each, its tag and type, whether the walk reaches the lookup of its tag
\* (visited: it lies in no unexported struct and is none itself) and whether
\* it can then be set (settable)
TaggedFields(t, path, reach) ==
    UNION { LET f == t.fields[i]
                p == path \o << i >>
            IN  (IF f.tag = <<>> THEN {}
                 ELSE {[path |-> p, tag |-> f.tag, type |-> f.type,
                        visited |-> reach /\ (f.type.kind = "struct" => f.exported),
                        settable |-> reach /\ f.exported]})
                \cup (IF f.type.kind = "struct"
                      THEN TaggedFields(f.type, p, reach /\ f.exported)
                      ELSE {})
          : i \in 1..Len(t.fields) }

Tagged == TaggedFields(TypeOf(typ), <<>>, TRUE)

\* the type has a built-in conversion: string, int, bool
Scalar(t) == t.kind \in {"string", "int", "bool"}

RECURSIVE Supported(_)
\* a scalar behind any number of pointers
Supported(t) == IF t.kind = "ptr" THEN Supported(t.elem) ELSE Scalar(t)

RECURSIVE AllLevelsSet(_, _)
\* no pointer on the way from x to its scalar is nil
AllLevelsSet(t, x) ==
    IF t.kind = "ptr" THEN x # <<>> /\ AllLevelsSet(t.elem, x[1]) ELSE TRUE

RECURSIVE Pointee(_, _)
\* the scalar at the end of a chain of pointers none of which is nil
Pointee(t, x) == IF t.kind = "ptr" THEN Pointee(t.elem, x[1]) ELSE x

RECURSIVE Base(_)
Base(t) == IF t.kind = "ptr" THEN Base(t.elem) ELSE t

\* the text a scalar of type t prints as
Text(t, x) ==
    CASE t.kind = "string" -> x
      [] t.kind = "int" -> FormatInt(x)
      [] t.kind = "bool" -> FormatBool(x)

\* the value the text s converts to for a scalar of type t
Converted(t, s) ==
    CASE t.kind = "string" -> s
      [] t.kind = "int" -> Atoi(s).val
      [] t.kind = "bool" -> ParseBool(s).val

Decoded == op = "Unmarshal" /\ pc = "done" /\ v = PointerToStruct
Encoded == op = "Marshal" /\ pc = "done" /\ v = PointerToStruct

\* Unmarshal is about to look up the tag of this field
AtTag ==
    /\ pc = "running" /\ op = "Unmarshal"
    /\ \/ Top.pos = "tag"
       \/ /\ Top.pos = "field" /\ Top.i <= Len(Top.fields)
          /\ Top.fields[Top.i].type.kind # "struct"

\* Unmarshal is about to start the loop iteration of this field
AtField ==
    /\ pc = "running" /\ op = "Unmarshal"
    /\ Top.pos = "field" /\ Top.i <= Len(Top.fields)

CurField == Top.fields[Top.i]

CurPath == Top.path \o << Top.i >>

\* the tag lists A and then B as its first two segments
ListsFirst(tag, A, B) ==
    LET n == Len(A) + 1 + Len(B)
    IN  /\ Len(tag) >= n
        /\ SubSeq(tag, 1, n) = A \o <<",">> \o B
        /\ Len(tag) > n => tag[n + 1] = ","

\* the keys the tags of the record types are made of
Keys ==
    { NPM_LOWER, NPM_UPPER, MISSING_KVSTRING, MISSING_INT, MISSING_1,
      MISSING_2, PRESENT }

\* what the tags of DefaultValueStruct say, field by field: the candidate
\* keys and the value of the default
Defaults ==
    [ DefaultKeyValueString |->
          [keys |-> {MISSING_KVSTRING}, value |-> <<"k", "=", "v">>],
      DefaultInt |-> [keys |-> {MISSING_INT}, value |-> 7],
      DefaultWithOptionsMissing |->
          [keys |-> {MISSING_1, MISSING_2}, value |-> <<"p">>],
      DefaultWithOptionsPresent |->
          [keys |-> {MISSING_1, PRESENT}, value |-> <<"p">>] ]

----------------------------------------------------------------------------
(* Properties *)

\* C1 (Consumption): after a successful Unmarshal, every key of the EnvSet
\* that a tagged field was bound to is gone from the EnvSet, and every other
\* key is still there with the value it had.
C1_Consumption ==
    (Decoded /\ err = "") =>
        /\ DOMAIN es \subseteq DOMAIN es0
        /\ \A k \in DOMAIN es0 :
              IF \E f \in Tagged : f.settable /\ f.tag = k
              THEN k \notin DOMAIN es
              ELSE k \in DOMAIN es /\ es[k] = es0[k]

C1_Witness ==
    /\ Decoded /\ err = ""
    /\ \E f \in Tagged : f.settable /\ f.tag \in DOMAIN es0 /\ f.tag \notin DOMAIN es
    /\ EXTRA \in DOMAIN es0 /\ EXTRA \in DOMAIN es
    /\ \E f \in Tagged : ~f.visited /\ f.tag \in DOMAIN es

\* the record type is in the scope of the round trip: every tagged field is
\* a string, an int or a bool that Unmarshal can set
ScalarRecord == \A f \in Tagged : Scalar(f.type) /\ f.settable

\* no two tagged fields of the record type have the same key
DistinctKeys == \A f, g \in Tagged : f.tag = g.tag => f.path = g.path

\* every tagged field of the decoded record has the value it had in the
\* record that was encoded
Reproduced == \A f \in Tagged : GetAt(rec, f.path) = GetAt(src, f.path)

\* C2 as stated (Round-trip): for every record whose tagged fields are
\* strings, ints and bools, decoding the output of Marshal into a zero record
\* succeeds and reproduces every tagged field.
C2_RoundTrip_AsStated ==
    (trip /\ pc = "done" /\ ScalarRecord) => (err = "" /\ Reproduced)

\* C2 (Round-trip), amended: the same, for records no two tagged fields of
\* which have the same key.
C2_RoundTrip ==
    (trip /\ pc = "done" /\ ScalarRecord /\ DistinctKeys) =>
        (err = "" /\ Reproduced)

C2_Witness ==
    /\ trip /\ pc = "done" /\ ScalarRecord /\ DistinctKeys
    /\ \E f \in Tagged : f.type.kind = "int" /\ GetAt(src, f.path) < 0 - 9
    /\ \E f \in Tagged : f.type.kind = "bool" /\ GetAt(src, f.path)
    /\ \E f \in Tagged : f.type.kind = "string" /\ Len(GetAt(src, f.path)) > 1
    /\ err = "" /\ Reproduced

\* C3: Unmarshal and Marshal return ErrInvalidValue when v is not a pointer,
\* is a nil pointer or points to something that is not a struct; the EnvSet
\* and the record are then as they were and Marshal returns no EnvSet.
C3_InvalidValue ==
    (pc = "done" /\ op # "none" /\ v # PointerToStruct) =>
        /\ err = ErrInvalidValue
        /\ es = es0
        /\ rec = rec0
        /\ op = "Marshal" => out = Nil

C3_Witness ==
    /\ pc = "done" /\ op = "Marshal" /\ v = PointerToPointer
    /\ err = ErrInvalidValue /\ out = Nil /\ calls > 1

\* C4 (Pointer absence): Unmarshal leaves a nil pointer field nil when its
\* key is not in the EnvSet, and the EnvSet Marshal returns has no entry for
\* the key of a nil pointer field, in nested structs too.
C4_PointerAbsence ==
    /\ Decoded =>
          \A f \in Tagged :
              (f.type.kind = "ptr" /\ GetAt(rec0, f.path) = <<>>
                 /\ f.tag \notin DOMAIN es0) => GetAt(rec, f.path) = <<>>
    /\ (Encoded /\ err = "") =>
          \A f \in Tagged :
              (f.type.kind = "ptr" /\ GetAt(rec, f.path) = <<>>) =>
                  f.tag \notin DOMAIN out

C4_Witness ==
    /\ Encoded /\ err = ""
    /\ \E f \in Tagged : /\ f.type.kind = "ptr" /\ Len(f.path) > 1
                          /\ GetAt(rec, f.path) = <<>>
    /\ \E f \in Tagged : /\ f.type.kind = "ptr" /\ GetAt(rec, f.path) # <<>>
                          /\ f.tag \in DOMAIN out

C4_WitnessDecode ==
    /\ Decoded /\ err = "" /\ es0 # EmptySet
    /\ \E f \in Tagged : /\ f.type.kind = "ptr" /\ f.tag \notin DOMAIN es0
                          /\ GetAt(rec, f.path) = <<>>
    /\ \E f \in Tagged : /\ f.type.kind = "ptr" /\ GetAt(rec, f.path) # <<>>

\* C5 (Pointer presence): after a successful Unmarshal, a pointer field whose
\* key was in the EnvSet, be it with the empty string, is not nil at any level
\* and points to the converted value.
C5_PointerPresence ==
    (Decoded /\ err = "") =>
        \A f \in Tagged :
            (f.type.kind = "ptr" /\ f.settable /\ f.tag \in DOMAIN es0) =>
                /\ AllLevelsSet(f.type, GetAt(rec, f.path))
                /\ Pointee(f.type, GetAt(rec, f.path))
                      = Converted(Base(f.type), es0[f.tag])

C5_Witness ==
    /\ Decoded /\ err = "" /\ rec0 = Zero(TypeOf(typ))
    /\ \E f \in Tagged :
          /\ f.type.kind = "ptr" /\ f.type.elem.kind = "ptr"
          /\ f.tag \in DOMAIN es0 /\ es0[f.tag] = <<>>
          /\ GetAt(rec, f.path) = << << <<>> >> >>
    /\ \E f \in Tagged :
          /\ f.type.kind = "ptr" /\ f.type.elem.kind = "int"
          /\ GetAt(rec, f.path) = << 0 - 12 >>

C7_UnsupportedType ==
    [][(AtTag /\ CurField.tag # <<>> /\ CanSet(CurField)
          /\ CurField.tag \in DOMAIN es /\ ~Supported(CurField.type))
       => (pc' = "done" /\ err' = ErrUnsupportedType)]_vars

C7_Witness ==
    /\ Decoded /\ typ = "UnsupportedStruct"
    /\ TIMESTAMP \in DOMAIN es0 /\ TIMESTAMP \in DOMAIN es
    /\ err = ErrUnsupportedType

\* C8: Unmarshal returns ErrUnexportedField for every tagged field that it
\* cannot set, whether or not the key of the field is in the EnvSet.
C8_UnexportedField ==
    [][(AtField /\ CurField.tag # <<>> /\ ~CanSet(CurField))
       => (pc' = "done" /\ err' = ErrUnexportedField)]_vars

\* C9 (Alias precedence): when Unmarshal looks up a field whose tag lists the
\* keys A, B and both are in the EnvSet, the field gets the value of A.
C9_AliasPrecedence ==
    [][\A A, B \in Keys :
          (AtTag /\ CanSet(CurField) /\ ListsFirst(CurField.tag, A, B)
             /\ A \in DOMAIN es /\ B \in DOMAIN es)
          => /\ err' = ""
             /\ AllLevelsSet(CurField.type, GetAt(rec', CurPath))
             /\ Pointee(CurField.type, GetAt(rec', CurPath))
                   = Converted(Base(CurField.type), es[A])]_vars

C9_Witness ==
    /\ Decoded /\ err = "" /\ typ = "MultipleTagsStruct"
    /\ NPM_LOWER \in DOMAIN es0 /\ NPM_UPPER \in DOMAIN es0
    /\ es0[NPM_LOWER] # es0[NPM_UPPER]
    /\ rec0[1] # es0[NPM_LOWER]
    /\ rec[1] = es0[NPM_LOWER]

\* C10 (Default suppression): when Unmarshal looks up a field with a default,
\* the field gets the value of a candidate key that is in the EnvSet, and
\* gets the whole default, with the EnvSet left as it is, only when no
\* candidate key is in the EnvSet.
C10_DefaultSuppression ==
    [][(AtTag /\ typ = "DefaultValueStruct")
       => LET d == Defaults[CurField.name]
              present == d.keys \cap DOMAIN es
          IN  IF present # {}
              THEN err' = "" =>
                     \E k \in present :
                        GetAt(rec', CurPath) = Converted(CurField.type, es[k])
              ELSE /\ err' = ""
                   /\ GetAt(rec', CurPath) = d.value
                   /\ es' = es]_vars

C10_Witness ==
    /\ Decoded /\ err = "" /\ typ = "DefaultValueStruct"
    /\ rec0 = Zero(DefaultValueStruct)
    /\ DOMAIN es0 = {PRESENT, MISSING_INT} /\ es0[MISSING_INT] = <<"-", "1", "2">>
    /\ rec = << <<"k", "=", "v">>, 0 - 12, <<"p">>, es0[PRESENT] >>

C10_WitnessEmpty ==
    /\ Decoded /\ err = "" /\ typ = "DefaultValueStruct"
    /\ es0 = EmptySet
    /\ rec = << <<"k", "=", "v">>, 7, <<"p">>, <<"p">> >>

\* what the tags of RequiredValueStruct say, field by field
Requirements ==
    [ Required |-> [key |-> REQUIRED_VAL, required |-> TRUE, default |-> FALSE],
      RequiredMore |->
          [key |-> REQUIRED_VAL_MORE, required |-> TRUE, default |-> FALSE],
      RequiredWithDefault |->
          [key |-> REQUIRED_MISSING, required |-> TRUE, default |-> TRUE],
      NotRequired |->
          [key |-> NOT_REQUIRED, required |-> FALSE, default |-> FALSE] ]

\* C11 (Required enforcement): when Unmarshal looks up a field tagged
\* required=true that has no key in the EnvSet and no default, it returns
\* ErrMissingRequiredValue naming the field's first key; with the key in the
\* EnvSet, or with a default, the lookup succeeds and stores the key's value
\* or the default; so the error of a whole call names the first such field in
\* declaration order.
C11_RequiredEnforcement ==
    [][/\ (AtTag /\ typ = "RequiredValueStruct")
          => LET q == Requirements[CurField.name]
             IN  IF q.key \in DOMAIN es
                 THEN err' = "" /\ GetAt(rec', CurPath) = es[q.key]
                 ELSE IF q.default
                 THEN err' = "" /\ GetAt(rec', CurPath) = <<"m">>
                 ELSE IF q.required
                 THEN /\ pc' = "done"
                      /\ err' = ErrMissingRequiredValue
                      /\ errValue' = q.key
                 ELSE err' = "" /\ rec' = rec
       /\ (pc = "running" /\ pc' = "done" /\ typ = "RequiredValueStruct")
          => IF REQUIRED_VAL \notin DOMAIN es0
             THEN err' = ErrMissingRequiredValue /\ errValue' = REQUIRED_VAL
             ELSE IF REQUIRED_VAL_MORE \notin DOMAIN es0
             THEN err' = ErrMissingRequiredValue
                  /\ errValue' = REQUIRED_VAL_MORE
             ELSE err' = ""]_vars

C11_Witness ==
    /\ Decoded /\ typ = "RequiredValueStruct"
    /\ DOMAIN es0 = {REQUIRED_VAL, NOT_REQUIRED}
    /\ rec0 = Zero(RequiredValueStruct)
    /\ rec[1] = es0[REQUIRED_VAL] /\ rec[1] # <<>>
    /\ err = ErrMissingRequiredValue /\ errValue = REQUIRED_VAL_MORE

C11_WitnessResolved ==
    /\ Decoded /\ typ = "RequiredValueStruct" /\ err = ""
    /\ REQUIRED_MISSING \notin DOMAIN es0 /\ NOT_REQUIRED \notin DOMAIN es0
    /\ rec0 = Zero(RequiredValueStruct)
    /\ rec = << es0[REQUIRED_VAL], es0[REQUIRED_VAL_MORE], <<"m">>, <<>> >>

\* what the tags of IterValuesStruct say, field by field: the key, the
\* separator and the element type
Lists ==
    [ IntSlice |-> [key |-> INT, sep |-> "|", elem |-> IntT],
      BoolSlice |-> [key |-> BOOL, sep |-> "|", elem |-> BoolT],
      KVStringSlice |-> [key |-> KV, sep |-> "|", elem |-> StringT],
      WithSeparator |-> [key |-> SEPARATOR, sep |-> "&", elem |-> IntT] ]

RECURSIVE Join(_, _, _)
\* the texts of the elements xs of type t, with sep between them
Join(t, xs, sep) ==
    IF xs = <<>> THEN <<>>
    ELSE IF Len(xs) = 1 THEN Text(t, xs[1])
    ELSE Text(t, xs[1]) \o << sep >> \o Join(t, Tail(xs), sep)

\* C12 (List parsing): when Unmarshal finds the key of a repeated-value
\* field, a successful step stores the pieces between the field's
\* separators, converted, in their order: joined by the separator their
\* texts are the raw value and no piece holds a separator.  "1|2" gives
\* [1, 2] for the default separator and "1&2" the same for separator=&,
\* where "1|2" is one piece that is no integer.
C12_ListParsing ==
    [][(AtTag /\ typ = "IterValuesStruct"
          /\ Lists[CurField.name].key \in DOMAIN es)
       => LET l == Lists[CurField.name]
              raw == es[l.key]
              xs == GetAt(rec', CurPath)
          IN  /\ err' = "" =>
                    /\ Len(xs) >= 1
                    /\ Join(l.elem, xs, l.sep) = raw
                    /\ \A i \in 1..Len(xs) :
                          \A n \in 1..Len(Text(l.elem, xs[i])) :
                              Text(l.elem, xs[i])[n] # l.sep
              /\ (l.elem = IntT /\ raw = << "1", l.sep, "2" >>)
                    => (err' = "" /\ xs = << 1, 2 >>)
              /\ (l.elem = IntT /\ raw \in SliceValues \ { << "1", l.sep, "2" >> })
                    => err' # ""]_vars

C12_Witness ==
    /\ Decoded /\ err = "" /\ typ = "IterValuesStruct"
    /\ rec0 = Zero(IterValuesStruct)
    /\ DOMAIN es0 = {INT, SEPARATOR, KV}
    /\ rec = << <<1, 2>>, <<>>, << <<"k", "=", "v">>, <<"b">> >>, <<1, 2>> >>

\* C13: a field whose type has UnmarshalEnvironmentValue and
\* MarshalEnvironmentValue is decoded and encoded by them and not by the
\* built-in rule, be it a string type, a struct type or a pointer to one, and
\* a pointer field whose key is in the EnvSet is not nil after Unmarshal.
C13_CustomCoder ==
    /\ (Decoded /\ typ = "CustomStruct") =>
          /\ (BASE64_ENCODED_STRING \in DOMAIN es0
                 /\ es0[BASE64_ENCODED_STRING] = <<"1">>) => err # ""
          /\ err = "" =>
                /\ BASE64_ENCODED_STRING \in DOMAIN es0 =>
                      /\ es0[BASE64_ENCODED_STRING] = <<"Y", "Q", "=", "=">>
                            => rec[1] = <<"a">>
                      /\ es0[BASE64_ENCODED_STRING] = <<"Y", "j", "1", "j">>
                            => rec[1] = <<"b", "=", "c">>
                      /\ es0[BASE64_ENCODED_STRING] = <<>> => rec[1] = <<>>
                /\ JSON_DATA \in DOMAIN es0 =>
                      /\ rec[2] \in { <<7>>, <<43>> }
                      /\ rec[2] = <<7>> <=> Len(es0[JSON_DATA]) = 15
                /\ POINTER_JSON_DATA \in DOMAIN es0 =>
                      /\ rec[3] \in { << <<7>> >>, << <<43>> >> }
                      /\ rec[3] = << <<7>> >> <=> Len(es0[POINTER_JSON_DATA]) = 15
    /\ (Encoded /\ err = "" /\ typ = "CustomStruct") =>
          /\ BASE64_ENCODED_STRING \in DOMAIN out
          /\ rec[1] = <<"a">> => out[BASE64_ENCODED_STRING] = <<"Y", "Q", "=", "=">>
          /\ rec[1] = <<"b", "=", "c">>
                => out[BASE64_ENCODED_STRING] = <<"Y", "j", "1", "j">>
          /\ JSON_DATA \in DOMAIN out
          /\ rec[2] = <<7>> => out[JSON_DATA] = JSONPrefix \o <<"7", "}">>
          /\ rec[3] = << <<7>> >>
                => /\ POINTER_JSON_DATA \in DOMAIN out
                   /\ out[POINTER_JSON_DATA] = JSONPrefix \o <<"7", "}">>

C13_Witness ==
    /\ Decoded /\ err = "" /\ typ = "CustomStruct"
    /\ rec0 = Zero(CustomStruct)
    /\ rec = << <<"a">>, <<43>>, << <<7>> >> >>

C13_WitnessEncode ==
    /\ Encoded /\ err = "" /\ typ = "CustomStruct"
    /\ rec = << <<"a">>, <<7>>, << <<7>> >> >>
    /\ DOMAIN out = {BASE64_ENCODED_STRING, JSON_DATA, POINTER_JSON_DATA}

\* the key k is one of the comma-separated segments of the tag
IsSegment(tag, k) ==
    \E i \in 1..Len(tag) :
        /\ i + Len(k) - 1 <= Len(tag)
        /\ SubSeq(tag, i, i + Len(k) - 1) = k
        /\ i > 1 => tag[i - 1] = ","
        /\ i + Len(k) <= Len(tag) => tag[i + Len(k)] = ","

\* the keys the tags of every record type Marshal is given are made of
EncodeKeys ==
    Keys \cup { HOME, WORKSPACE, EXTRA, REQUIRED_VAL, REQUIRED_VAL_MORE,
                REQUIRED_MISSING, NOT_REQUIRED }

\* the tagged fields Marshal gives a value to: visited, settable, and with
\* no nil pointer on the way to the value
Emitted ==
    { f \in Tagged : /\ f.visited /\ f.settable
                     /\ AllLevelsSet(f.type, GetAt(rec, f.path)) }

FirstSegment(tag) ==
    IF \E i \in 1..Len(tag) : tag[i] = ","
    THEN SubSeq(tag, 1, (CHOOSE i \in 1..Len(tag) :
                            /\ tag[i] = ","
                            /\ \A j \in 1..(i - 1) : tag[j] # ",") - 1)
    ELSE tag

HasEq(item) == \E n \in 1..Len(item) : item[n] = "="

\* where the first "=" of the item is
FirstEq(item) ==
    CHOOSE n \in 1..Len(item) :
        item[n] = "=" /\ \A j \in 1..(n - 1) : item[j] # "="

\* what is before, and what is after, the first "=" of the item
KeyOf(item) == SubSeq(item, 1, FirstEq(item) - 1)
ValueOf(item) == SubSeq(item, FirstEq(item) + 1, Len(item))

EnvironDone == op = "EnvironToEnvSet" /\ pc = "done"

\* C16 (Parse splits on the first "=" only): when EnvironToEnvSet returns,
\* either some item holds no "=", and it returns ErrInvalidEnviron and no
\* EnvSet, or it returns the EnvSet that maps what is before the first "=" of
\* each item to all that is after it (the last item of a key wins).
C16_SplitOnFirstEq ==
    EnvironDone
       => IF \E i \in 1..Len(environ) : ~HasEq(environ[i])
          THEN err = ErrInvalidEnviron /\ out = Nil
          ELSE /\ err = ""
               /\ DOMAIN out = { KeyOf(environ[i]) : i \in 1..Len(environ) }
               /\ \A i \in 1..Len(environ) :
                     (\A j \in (i + 1)..Len(environ) :
                         KeyOf(environ[j]) # KeyOf(environ[i]))
                        => out[KeyOf(environ[i])] = ValueOf(environ[i])

C16_Witness ==
    /\ EnvironDone /\ err = ""
    /\ environ = << HOME \o <<"=", "a">>, WORKSPACE \o <<"=", "1", "=", "2">> >>
    /\ out[WORKSPACE] = <<"1", "=", "2">>
    /\ out[HOME] = <<"a">>

C16_WitnessInvalid ==
    /\ EnvironDone /\ err = ErrInvalidEnviron /\ out = Nil
    /\ environ = << HOME \o <<"=", "a">>, <<"I", "N", "V">> >>

ApplyDone == op = "Apply" /\ pc = "done"

\* C17 (ApplyPatch): when es.Apply(cs) returns, a key of cs whose value is nil
\* is not in es, a key of cs whose value is not nil maps in es to the string
\* pointed to, and any other key is in es exactly when it was before the
\* call, with the value it had.
C17_Apply ==
    ApplyDone
       => /\ \A k \in DOMAIN cs :
                IF cs[k] = <<>> THEN k \notin DOMAIN es
                ELSE k \in DOMAIN es /\ es[k] = cs[k][1]
          /\ DOMAIN es \ DOMAIN cs = DOMAIN es0 \ DOMAIN cs
          /\ \A k \in DOMAIN es0 \ DOMAIN cs : es[k] = es0[k]

C17_Witness ==
    /\ ApplyDone
    /\ DOMAIN es0 = {HOME, WORKSPACE, EXTRA}
    /\ DOMAIN cs = {HOME, WORKSPACE}
    /\ cs[HOME] = <<>> /\ cs[WORKSPACE] = << <<>> >>
    /\ DOMAIN es = {WORKSPACE, EXTRA}
    /\ es[WORKSPACE] = <<>> /\ es[EXTRA] = es0[EXTRA]

\* Unmarshal has returned and the EnvSet it was given had a value for BOOL
BoolDecoded == Decoded /\ typ = "ValidStruct" /\ BOOL \in DOMAIN es0

\* C18 as stated (bool decode is a strict true/false parse): Unmarshal of a
\* bool field succeeds for the values true and false and for no other.
C18_StrictTrueFalse ==
    BoolDecoded
       => (err = "" <=> es0[BOOL] \in { <<"t", "r", "u", "e">>,
                                         <<"f", "a", "l", "s", "e">> })

\* C18 (bool decode accepts the tokens of strconv.ParseBool), amended:
\* Unmarshal of a bool field succeeds for 1, t, T, TRUE, true, True, which
\* set the field to true, and for 0, f, F, FALSE, false, False, which set it
\* to false; for any other value it fails and leaves the field as it was.
C18_ParseBoolTokens ==
    BoolDecoded
       => LET yes == { <<"1">>, <<"t">>, <<"T">>, <<"T", "R", "U", "E">>,
                       <<"t", "r", "u", "e">>, <<"T", "r", "u", "e">> }
              no == { <<"0">>, <<"f">>, <<"F">>, <<"F", "A", "L", "S", "E">>,
                      <<"f", "a", "l", "s", "e">>, <<"F", "a", "l", "s", "e">> }
          IN  /\ es0[BOOL] \in yes => err = "" /\ rec[5] = TRUE
              /\ es0[BOOL] \in no => err = "" /\ rec[5] = FALSE
              /\ es0[BOOL] \notin yes \cup no => err # "" /\ rec[5] = rec0[5]

C18_Witness ==
    /\ BoolDecoded /\ err = ""
    /\ es0[BOOL] = <<"T">> /\ rec0[5] = FALSE /\ rec[5] = TRUE

C18_WitnessRejected ==
    /\ BoolDecoded /\ err = ErrSyntax
    /\ es0[BOOL] = <<"y", "e", "s">> /\ rec0[5] = TRUE /\ rec[5] = TRUE

\* path q comes before path c at the first index where the two differ
LexLess(q, c) ==
    \E n \in 1..Len(q) :
        /\ n <= Len(c) /\ q[n] < c[n]
        /\ \A j \in 1..(n - 1) : q[j] = c[j]

\* path c is q cut short
ProperPrefix(c, q) == Len(c) < Len(q) /\ SubSeq(q, 1, Len(c)) = c

\* the tag of the field at path q is looked up before that of the field at
\* path c: q is declared earlier, or inside the record at c
Before(q, c) == LexLess(q, c) \/ ProperPrefix(c, q)

\* Unmarshal is running and this step makes it return an error
Failing == pc = "running" /\ op = "Unmarshal" /\ err' # ""

C19_WitnessLater ==
    /\ Decoded /\ typ = "ValidStruct" /\ err = ErrSyntax
    /\ DOMAIN es0 = {HOME, INT, BOOL}
    /\ es0[BOOL] = <<"1">> /\ es0[HOME] = <<"1">>
    /\ rec0[5] = FALSE /\ rec[5] = FALSE
    /\ rec0[1] # <<"1">> /\ rec[1] = <<"1">>
    /\ DOMAIN es = {INT, BOOL}

RECURSIVE UntaggedFields(_, _)
\* the fields of struct type t without a tag, nested structs included
UntaggedFields(t, path) ==
    UNION { LET f == t.fields[i]
                p == path \o << i >>
            IN  (IF f.tag = <<>> THEN {[path |-> p, type |-> f.type]} ELSE {})
                \cup (IF f.type.kind = "struct"
                      THEN UntaggedFields(f.type, p) ELSE {})
          : i \in 1..Len(t.fields) }

Untagged == UntaggedFields(TypeOf(typ), <<>>)

\* C20 as stated (untagged field ignored): Unmarshal leaves every field
\* without a tag as it was, and Marshal returns no key but those of tags.
C20_UntaggedIgnored ==
    /\ Decoded
          => \A f \in Untagged : GetAt(rec, f.path) = GetAt(rec0, f.path)
    /\ (Encoded /\ err = "") => DOMAIN out \subseteq { f.tag : f \in Tagged }

\* C20 (untagged field ignored), amended: Unmarshal leaves every field
\* without a tag that is not a nested struct as it was, whether or not the
\* EnvSet has an entry named like the field, and leaves that entry alone;
\* Marshal returns no key but those of tags.
C20_UntaggedScalarIgnored ==
    /\ Decoded
          => /\ \A f \in Untagged :
                   f.type.kind # "struct"
                      => GetAt(rec, f.path) = GetAt(rec0, f.path)
             /\ EXTRA \in DOMAIN es0
                   => EXTRA \in DOMAIN es /\ es[EXTRA] = es0[EXTRA]
    /\ (Encoded /\ err = "") => DOMAIN out \subseteq { f.tag : f \in Tagged }

C20_Witness ==
    /\ Decoded /\ err = "" /\ typ = "ValidStruct"
    /\ EXTRA \in DOMAIN es0 /\ es0[EXTRA] = <<"1">>
    /\ rec0[3] = <<"a">> /\ rec[3] = <<"a">>
    /\ rec[1] # rec0[1]

C20_WitnessEncode ==
    /\ Encoded /\ err = "" /\ typ = "ValidStruct"
    /\ rec[3] = <<"a">>
    /\ DOMAIN out = {HOME, WORKSPACE, INT, BOOL}

\* the tagged string, int and bool fields of the record type
ScalarFields == { f \in Tagged : Scalar(f.type) }

\* the value s is one the field type t converts
WellFormedFor(t, s) ==
    CASE t.kind = "string" -> TRUE
      [] t.kind = "int" -> s \in { <<"1">>, <<"-", "1", "2">> }
      [] t.kind = "bool" -> s \in { <<"1">>, <<"t", "r", "u", "e">> }

\* the EnvSet Unmarshal was given holds well-formed values at the keys of
\* the scalar fields
WellFormed ==
    \A f \in ScalarFields :
        f.tag \in DOMAIN es0 => WellFormedFor(f.type, es0[f.tag])

\* the field value x is what the value s stands for: the text itself, the
\* number in base 10, the truth value
ConversionOf(t, s, x) ==
    CASE t.kind = "string" -> x = s
      [] t.kind = "int" ->
            /\ s = <<"1">> => x = 1
            /\ s = <<"-", "1", "2">> => x = 0 - 12
      [] t.kind = "bool" -> x = TRUE

\* every scalar field whose key was in the EnvSet holds the conversion of
\* the value at its key
EachFieldConverted ==
    \A f \in ScalarFields :
        f.tag \in DOMAIN es0
           => ConversionOf(f.type, es0[f.tag], GetAt(rec, f.path))

\* what is left of the EnvSet is what no field is tagged with
LeftoverUnbound ==
    /\ DOMAIN es = DOMAIN es0 \ { f.tag : f \in Tagged }
    /\ \A k \in DOMAIN es : es[k] = es0[k]

\* C21 as stated (Decode of well-formed values): for every record type,
\* Unmarshal of an EnvSet with well-formed values at the keys of the scalar
\* fields succeeds, sets each of them to the conversion of its value and
\* leaves what no field is tagged with.
C21_DecodeScalars_AsStated ==
    (Decoded /\ ~trip /\ WellFormed)
       => (err = "" /\ EachFieldConverted /\ LeftoverUnbound)

\* C21 (Decode of well-formed values), amended: the same, for record types
\* all tagged fields of which are exported strings, ints and bools no two of
\* which have the same key.
C21_DecodeScalars ==
    (Decoded /\ ~trip /\ WellFormed /\ ScalarRecord /\ DistinctKeys)
       => (err = "" /\ EachFieldConverted /\ LeftoverUnbound)

C21_Witness ==
    /\ Decoded /\ ~trip /\ err = "" /\ typ = "ValidStruct"
    /\ DOMAIN es0 = {WORKSPACE, INT, BOOL}
    /\ es0[INT] = <<"-", "1", "2">> /\ es0[BOOL] = <<"t", "r", "u", "e">>
    /\ es0[WORKSPACE] = <<"1">>
    /\ rec0 = Zero(ValidStruct)
    /\ rec = << <<>>, << <<"1">> >>, <<>>, 0 - 12, TRUE >>
    /\ es = EmptySet

\* C22 (absent key leaves the field alone): the step of Unmarshal that looks
\* up the tag of a field it can set, and finds no entry for it, changes
\* neither the record nor the EnvSet and goes on with the loop; and when
\* Unmarshal has returned, every tagged field whose key was not in the EnvSet
\* holds what it held before the call.
C22_AbsentKeyKeepsValue ==
    /\ [][(AtTag /\ CurField.tag # <<>> /\ CurField.exported
             /\ CurField.tag \notin DOMAIN es)
          => /\ rec' = rec /\ es' = es
             /\ err' = "" /\ pc' = "running"
             /\ stack' = WithTop(NextField)]_vars
    /\ [](Decoded
            => \A f \in Tagged :
                  f.tag \notin DOMAIN es0
                     => GetAt(rec, f.path) = GetAt(rec0, f.path))

C22_Witness ==
    /\ Decoded /\ ~trip /\ err = "" /\ typ = "ValidStruct"
    /\ WORKSPACE \notin DOMAIN es0 /\ INT \in DOMAIN es0
    /\ rec0[2] = << <<"a">> >> /\ rec[2] = rec0[2]
    /\ rec0[4] = 7 /\ rec[4] = 1

\* C23 (one mapping for nested and top-level fields): after a successful
\* Unmarshal, of two fields tagged with the same key that was in the EnvSet,
\* the one looked up first holds the value, the key is gone from the EnvSet
\* and the one looked up later holds what it held before the call.
C23_FirstVisitedWins ==
    (Decoded /\ err = "")
       => \A f, g \in Tagged :
             ( /\ f.tag = g.tag /\ Before(f.path, g.path)
               /\ f.settable /\ g.settable
               /\ f.tag \in DOMAIN es0 )
                => /\ ConversionOf(f.type, es0[f.tag], GetAt(rec, f.path))
                   /\ GetAt(rec, g.path) = GetAt(rec0, g.path)
                   /\ f.tag \notin DOMAIN es

\* the nested field is declared first and gets the value
C23_Witness ==
    /\ Decoded /\ err = "" /\ typ = "SharedStruct"
    /\ HOME \in DOMAIN es0 /\ es0[HOME] = <<"1">>
    /\ rec0 = << << <<"a">> >>, <<"a">> >>
    /\ rec = << << <<"1">> >>, <<"a">> >>

\* the top-level field is declared first and gets the value
C23_WitnessLater ==
    /\ Decoded /\ err = "" /\ typ = "SharedLaterStruct"
    /\ HOME \in DOMAIN es0 /\ es0[HOME] = <<"1">>
    /\ rec0 = << <<"a">>, << <<"a">> >> >>
    /\ rec = << <<"1">>, << <<"a">> >> >>

\* the field f is the last of the fields Marshal prints under its tag
LastWritten(f) ==
    \A g \in Emitted : (g.tag = f.tag /\ g.path # f.path) => Before(g.path, f.path)

\* C24 (Encode merges nested keys, the later write wins): the EnvSet Marshal
\* returns has the tags of the fields that have a value as its keys, and
\* each key holds the text of the field declared last among those tagged
\* with it, nested structs counted at the place they are declared.
C24_LaterWriteWins ==
    (Encoded /\ err = "")
       => /\ DOMAIN out = { f.tag : f \in Emitted }
          /\ \A f \in Emitted :
                (LastWritten(f) /\ Scalar(Base(f.type)))
                   => out[f.tag] = Text(Base(f.type),
                                        Pointee(f.type, GetAt(rec, f.path)))

\* the nested field comes after the top-level one and wins
C24_Witness ==
    /\ Encoded /\ err = "" /\ typ = "SharedLaterStruct"
    /\ rec[1] # rec[2][1]
    /\ DOMAIN out = {HOME} /\ out[HOME] = rec[2][1]

\* the top-level field comes after the nested one and wins
C24_WitnessTopLevel ==
    /\ Encoded /\ err = "" /\ typ = "SharedStruct"
    /\ rec[1][1] # rec[2]
    /\ DOMAIN out = {HOME} /\ out[HOME] = rec[2]

\* the later of two nested structs wins
C24_WitnessNested ==
    /\ Encoded /\ err = "" /\ typ = "TwoNestedStruct"
    /\ rec[1][1] # rec[2][1]
    /\ DOMAIN out = {HOME} /\ out[HOME] = rec[2][1]

NotConvertible(t, s) ==
    CASE t.kind = "int" -> s \in { <<>>, <<"t", "r", "u", "e">> }
      [] t.kind = "bool" -> s \in { <<>>, <<"-", "1", "2">> }
      [] OTHER -> FALSE

\* C26 (conversion failure): the step of Unmarshal that looks up the tag of
\* an int or bool field, or of a pointer to one, and finds a value that does
\* not convert, ends the call with the error of strconv; the record and the
\* EnvSet are as before the step, the field holds what it held before the
\* call (a nil pointer is still nil) and the key still has its value.
C26_ConversionFailure ==
    [][(AtTag /\ CurField.tag # <<>> /\ CurField.exported
          /\ CurField.tag \in DOMAIN es
          /\ NotConvertible(Base(CurField.type), es[CurField.tag]))
       => /\ pc' = "done" /\ err' = ErrSyntax
          /\ rec' = rec /\ es' = es
          /\ GetAt(rec', CurPath) = GetAt(rec0, CurPath)
          /\ es'[CurField.tag] = es0[CurField.tag]]_vars

C26_Witness ==
    /\ Decoded /\ ~trip /\ err = ErrSyntax /\ typ = "PointerStruct"
    /\ POINTER_INT \in DOMAIN es0 /\ es0[POINTER_INT] = <<"t", "r", "u", "e">>
    /\ rec0[3] = <<>> /\ rec[3] = <<>>
    /\ POINTER_INT \in DOMAIN es /\ es[POINTER_INT] = es0[POINTER_INT]

C26_WitnessInt ==
    /\ Decoded /\ ~trip /\ err = ErrSyntax /\ typ = "ValidStruct"
    /\ INT \in DOMAIN es0 /\ es0[INT] = <<>>
    /\ rec0[4] = 7 /\ rec[4] = 7
    /\ INT \in DOMAIN es /\ es[INT] = <<>>

\* C27 (the type is looked at after the key): the step of Unmarshal that
\* looks up the tag of a field of unsupported type, and finds no entry for
\* it, returns no error, changes nothing and goes to the next field; when
\* the entry is there the same step returns ErrUnsupportedType.
C27_TypeAfterMatch ==
    [][(AtTag /\ CurField.tag # <<>> /\ CurField.exported
          /\ ~Supported(CurField.type))
       => IF CurField.tag \in DOMAIN es
          THEN pc' = "done" /\ err' = ErrUnsupportedType
          ELSE /\ err' = "" /\ pc' = "running"
               /\ rec' = rec /\ es' = es
               /\ stack' = WithTop(NextField)]_vars

\* no TIMESTAMP in the EnvSet: Unmarshal succeeds and sets the field after
C27_Witness ==
    /\ Decoded /\ err = "" /\ typ = "UnsupportedFirstStruct"
    /\ DOMAIN es0 = {HOME} /\ es0[HOME] = <<"1">>
    /\ rec0[2] = <<"a">> /\ rec[2] = <<"1">>
    /\ rec[1] = rec0[1]
    /\ es = EmptySet

\* C28 (Decode is idempotent over the leftover): an Unmarshal that is given
\* the EnvSet and the record that a successful Unmarshal has left returns
\* nil, and at no point of it does the record or the EnvSet differ from what
\* it was given.
C28_IdempotentOnLeftover ==
    (op = "Unmarshal" /\ repeat) => (err = "" /\ rec = rec0 /\ es = es0)

\* the first call has decoded HOME and INT; the second has returned
C28_Witness ==
    /\ Decoded /\ repeat /\ err = "" /\ typ = "ValidStruct"
    /\ rec[1] = <<"1">> /\ rec[4] = 0 - 12
    /\ DOMAIN es = {EXTRA}

\* what es0 becomes when cs is applied to it, whatever the order
Applied ==
    [k \in (DOMAIN es0 \ { k \in DOMAIN cs : cs[k] = <<>> })
              \cup { k \in DOMAIN cs : cs[k] # <<>> }
        |-> IF k \in DOMAIN cs THEN cs[k][1] ELSE es0[k]]

\* C29 (Apply is idempotent and order-independent): when Apply returns, the
\* EnvSet is the one the ChangeSet and the EnvSet before the call determine,
\* in whatever order the entries were visited; and when the same ChangeSet
\* is applied once more, the EnvSet is as the first call has left it.
C29_ApplyIdempotent ==
    ApplyDone => (es = Applied /\ (repeat => es = es0))

C29_Witness ==
    /\ ApplyDone /\ repeat
    /\ DOMAIN cs = {HOME, WORKSPACE}
    /\ cs[HOME] = << <<"a">> >> /\ cs[WORKSPACE] = <<>>
    /\ DOMAIN es = {HOME, EXTRA} /\ es[HOME] = <<"a">>

FormatDone == op = "EnvSetToEnviron" /\ pc = "done"

NoEqInKeys == \A k \in DOMAIN es : ~HasEq(k)

\* C30 (Format and Parse round-trip): for an EnvSet no key of which holds a
\* "=", EnvSetToEnviron returns one item key=value for each entry and no
\* other, and EnvironToEnvSet of these items returns nil and an EnvSet equal
\* to the one that was formatted.
C30_FormatParse ==
    /\ (FormatDone /\ NoEqInKeys)
          => /\ Len(environ) = Cardinality(DOMAIN es)
             /\ \A k \in DOMAIN es :
                   \E i \in 1..Len(environ) : environ[i] = k \o <<"=">> \o es[k]
    /\ (EnvironDone /\ trip /\ NoEqInKeys) => (err = "" /\ out = es)

C30_Witness ==
    /\ EnvironDone /\ trip /\ err = ""
    /\ DOMAIN es = {HOME, WORKSPACE}
    /\ es[HOME] = <<>> /\ es[WORKSPACE] = <<"1", "=", "2">>
    /\ out = es

\* a key that holds a "=" does not come back
C30_WitnessEqInKey ==
    /\ EnvironDone /\ trip /\ err = ""
    /\ DOMAIN es = { <<"K", "=">> }
    /\ DOMAIN out = { <<"K">> }

====
